---- MODULE Spec2Model ----
(***************************************************************************)
(* Model of the browser client of lan-text-web-chat: the Transport class   *)
(* (two WebSocket scopes, lobby and room, with backoff reconnection), the  *)
(* user actions that drive it and the server/browser events it reacts to,  *)
(* and the message history it keeps in localStorage and in the pane.       *)
(*                                                                         *)
(* The client is single threaded: every action below is one event handler  *)
(* run to completion.  Handlers are written as operators from a record t   *)
(* holding the whole client state to the record after the call, so that a  *)
(* handler that calls another one is the composition of the two.           *)
(***************************************************************************)
EXTENDS Integers, Sequences, FiniteSets, TLC

\* ---------------------------------------------------------------- bounds
\* WebSocket objects alive at the same time (a closed one frees its slot).
MaxSocks == 2
\* FileReader reads in progress at the same time.
MaxReads == 1
\* Messages of one session: received ones and join lines.
MaxMsgs == 3
\* config.js MAX_MESSAGES (100 unless the server configures another count),
\* scaled down.
MAX_MESSAGES == 2
\* config.js STORAGE_MAX_BYTES (5 MB unless configured), in units of UNIT
\* bytes, UNIT being the size of a stored envelope.
STORAGE_MAX_BYTES == 6
\* How far the quota of the browser may lie above or below STORAGE_MAX_BYTES.
QuotaSlack == 2
\* Room-scope connections the server holds at a time.
MaxConns == 3
\* config.js MAX_MESSAGE_BYTES (16 MB unless the server configures another
\* limit), scaled down to a few bytes.
MAX_MESSAGE_BYTES == 3

\* ------------------------------------------------------------- constants
RETRY_BASE_MS == 1000
RETRY_MAX_MS == 8000
LOBBY_ROOM == "lobby"
\* Room names other than the default room that the server may list.
OtherRooms == {"team-1"}
Rooms == {LOBBY_ROOM} \cup OtherRooms
\* Legal display names, and what the user may have typed in the name box.
Names == {"ann", "bob"}
NameInputs == Names \cup {"", "a b"}
\* What the user may have typed in the room box.
RoomInputs == OtherRooms \cup {"a b"}
\* Close codes a close event may carry: abnormal closure (the handlers treat
\* every other non-terminal code alike), policy violation, message too big.
CloseCodes == {1006, 1008, 1009}
Scopes == {"lobby", "room"}
Socks == 1..MaxSocks
STORAGE_PREFIX == "lanchat_room_"
STORAGE_VERSION == 1
STORAGE_MAX_AGE_DAYS == 7
\* cleanupExpiredData's default maxAge, in milliseconds.
MaxAgeMs == STORAGE_MAX_AGE_DAYS * 24 * 60 * 60 * 1000
\* Date.now() when the page is loaded.
T0 == MaxAgeMs + 2
\* A minute, in milliseconds.
MinuteMs == 60 * 1000
\* How much time may pass between two events: more than maxAge.
TickSteps == {MaxAgeMs + 1}
MaxNow == T0 + MaxAgeMs + 1
\* The quota localStorage may have: less than the budget the client is
\* configured with, or more.
Quotas == {STORAGE_MAX_BYTES - QuotaSlack, STORAGE_MAX_BYTES + QuotaSlack}
\* The types of the envelopes the server sends to a room, other than error
\* and users: chat text, a file, and one the client does not persist.
MessageTypes == {"text", "file", "typing"}

VARIABLES
    booted,           \* init() has run
    username,         \* state.js username
    lobbyWs, roomWs,  \* Transport handles: a socket of Socks, or 0 for null
    currentRoom,      \* Transport.currentRoom
    lobbyRetry, roomRetry,   \* Transport._lobbyRetry, _roomRetry
    lobbyTimer, roomTimer,   \* Transport._lobbyTimer, _roomTimer is not null
    roomManualClose,  \* Transport._roomManualClose
    timers,           \* per scope, the setTimeout timers not yet fired or cleared
    sock,             \* the WebSocket objects
    existingRooms,    \* state.js existingRooms
    leaveBtn,         \* the leave button is displayed
    reads,            \* FileReader reads in progress
    localStorage,     \* window.localStorage: the value of every key
    quota,            \* the quota of localStorage
    currentRoomMessages,  \* state.js currentRoomMessages
    rendered,         \* the .message nodes of the pane, oldest first
    now,              \* Date.now()
    nextId,           \* identity of the next envelope of the session
    lastSched,        \* history: per scope, delay of the last retry scheduled since the last open (0: none)
    config,           \* config.js: the settings the server may configure
    server,           \* the room directory of the server: connections and member lists
    connectionStatus, \* state.js: the #connectionStatus element is hidden, and lastConnectionScope
    reported,         \* history: per scope, the state of its last connection event ("": none)
    out,              \* what the last step did, in order: calls, notifications, frames
    watch             \* the kinds of entries a specification records in out and lastSched

vars == <<booted, username, lobbyWs, roomWs, currentRoom, lobbyRetry, roomRetry,
          lobbyTimer, roomTimer, roomManualClose, timers, sock, existingRooms,
          leaveBtn, reads, localStorage, quota, currentRoomMessages, rendered,
          now, nextId, lastSched, config, server, connectionStatus, reported, out, watch>>

\* ------------------------------------------------------------ the record
\* An entry of out.
E(ev, kind, room, s, n) == [ev |-> ev, kind |-> kind, room |-> room, sock |-> s, n |-> n]

\* A WebSocket object: first is the type of the first frame sent on it.
FreeSockRec == [scope |-> "", room |-> "", st |-> "free", first |-> "", onOpen |-> <<>>, req |-> {}]

\* The client state at the start of a step; ovf is raised when a step needs
\* more than the bounds give, and such a step is not taken.
St(first) ==
    [booted |-> booted, username |-> username, lobbyWs |-> lobbyWs, roomWs |-> roomWs,
     currentRoom |-> currentRoom, lobbyRetry |-> lobbyRetry, roomRetry |-> roomRetry,
     lobbyTimer |-> lobbyTimer, roomTimer |-> roomTimer,
     roomManualClose |-> roomManualClose, timers |-> timers, sock |-> sock,
     existingRooms |-> existingRooms, leaveBtn |-> leaveBtn,
     reads |-> reads, lastSched |-> lastSched, watch |-> watch,
     localStorage |-> localStorage, quota |-> quota,
     currentRoomMessages |-> currentRoomMessages, rendered |-> rendered,
     now |-> now, nextId |-> nextId, thrown |-> "", calls |-> <<>>,
     connectionStatus |-> connectionStatus, reported |-> reported,
     out |-> IF first.kind \in watch THEN <<first>> ELSE <<>>, ovf |-> FALSE]

Min(a, b) == IF a <= b THEN a ELSE b

\* An entry is recorded when the specification watches its kind.
Log(t, e) == IF e.ev \in t.watch THEN [t EXCEPT !.out = Append(@, e)] ELSE t

\* The message history, stored and shown, is kept by the specifications that
\* watch it: the connection layer never reads it.
Kept(t) == "store" \in t.watch

\* The history of scheduled delays is kept by the specifications that watch it.
Sched(t, type, delay) ==
    IF "sched" \in t.watch THEN [t EXCEPT !.lastSched[type] = delay] ELSE t

\* ------------------------------------------------------------- utilities
\* utils.js wsOpen: the socket exists and its readyState is OPEN.
wsOpen(t, s) == s # 0 /\ t.sock[s].st = "open"

\* The characters of the texts typed: a letter of two bytes in UTF-8, and
\* the double quote, one byte, which JSON.stringify writes as two.
Chars == {"é", "\""}

\* The values of the message box once trimmed: the empty text, and texts of
\* up to one byte more than MAX_MESSAGE_BYTES.
charBytes(c) == IF c = "é" THEN 2 ELSE 1

RECURSIVE utf8ByteLength(_)
\* utils.js utf8ByteLength of a text.
utf8ByteLength(v) == IF v = <<>> THEN 0 ELSE charBytes(Head(v)) + utf8ByteLength(Tail(v))

Texts ==
    {v \in UNION {[1..k -> Chars] : k \in 0..(MAX_MESSAGE_BYTES + 1)} :
        utf8ByteLength(v) <= MAX_MESSAGE_BYTES + 1}

\* The bytes of an envelope besides its text or its data: braces, field
\* names, the type, in units of a byte of text.
EnvelopeBytes == 1

RECURSIVE escapedBytes(_)
\* The UTF-8 bytes of the JSON string literal of a text, quotes aside.
escapedBytes(v) ==
    IF v = <<>> THEN 0
    ELSE (IF Head(v) = "\"" THEN 2 ELSE charBytes(Head(v))) + escapedBytes(Tail(v))

\* utf8ByteLength(JSON.stringify(msg)) of an envelope that carries text v.
jsonBytes(v) == EnvelopeBytes + escapedBytes(v)

\* The bytes of a frame on the wire; a frame without text is an envelope.
frameBytes(frame) == IF "bytes" \in DOMAIN frame THEN frame.bytes ELSE EnvelopeBytes

\* utils.js wsSend: the frame goes on the wire of an open socket; on any
\* other socket nothing is transmitted.
wsSend(t, s, frame) ==
    IF ~wsOpen(t, s) THEN t
    ELSE Log([t EXCEPT !.sock[s].first = IF @ = "" THEN frame.type ELSE @,
                       !.sock[s].req = IF frame.type = "create" THEN @ \cup {frame.arg} ELSE @],
             E("tx", frame.type, frame.arg, s,
               IF "bytes" \in t.watch THEN frameBytes(frame) ELSE 0))

\* utils.js validName: the name matches NAME_PATTERN.
validName(v) == v \in Names \cup Rooms

\* WebSocket.close(): an open or connecting socket starts closing.
wsClose(t, s) ==
    IF s # 0 /\ t.sock[s].st \in {"connecting", "open"}
    THEN Log([t EXCEPT !.sock[s].st = "closing"], E("close", t.sock[s].scope, t.sock[s].room, s, 0))
    ELSE t

\* new WebSocket(url): the lowest free slot holds the new connecting socket.
FreeSock(t) ==
    IF \E s \in Socks : t.sock[s].st = "free"
    THEN CHOOSE s \in Socks : t.sock[s].st = "free" /\ \A r \in Socks : r < s => t.sock[r].st # "free"
    ELSE 0

newWebSocket(t, s, scope, room) ==
    Log([t EXCEPT !.sock[s] = [FreeSockRec EXCEPT !.scope = scope, !.room = room, !.st = "connecting"]],
        E("new", scope, room, s, 0))

\* --------------------------------------------- config.js, the settings
\* A number of JavaScript, counted in halves: Num(n) is the integer n, and
\* Num(n) + half lies between n and n + 1.
Num(n) == 2 * n
half == Num(1) \div 2
MiB == 1024 * 1024

\* A value of a field of the object the server answers /config with: no
\* value at all, a finite number, a number too large for a double
\* (Infinity), a string, an array.
Missing == [kind |-> "undefined", v |-> 0]
Number(v) == [kind |-> "number", v |-> v]
Infinite == [kind |-> "infinite", v |-> 0]
String(v) == [kind |-> "string", v |-> v]
Array(v) == [kind |-> "array", v |-> v]
\* The answer null.
NullCfg == [isNull |-> TRUE]

\* Number.isFinite
isFinite(x) == x.kind = "number"

\* new RegExp(p) throws: the patterns of the model that are no regular
\* expression.
regExpThrows(p) == p \in {"[", "a{2,1}"}

\* [...new Set(a)]: the first occurrence of every element, in order.
RECURSIVE unique(_)
unique(a) ==
    IF a = <<>> THEN <<>>
    ELSE LET r == unique(SubSeq(a, 1, Len(a) - 1))
             x == a[Len(a)]
         IN  IF \E i \in 1..Len(r) : r[i] = x THEN r ELSE Append(r, x)

Max(a, b) == IF a >= b THEN a ELSE b

\* The settings as config.js declares them.
DefaultConfig ==
    [MAX_MESSAGE_BYTES |-> Num(16 * MiB),
     MAX_MESSAGES |-> Num(100),
     STORAGE_MAX_BYTES |-> Num(5 * MiB),
     STORAGE_MAX_AGE_DAYS |-> Num(STORAGE_MAX_AGE_DAYS),
     NAME_PATTERN |-> "^[A-Za-z0-9_-\\u3400-\\u9FFF\\uF900-\\uFAFF]{1,10}$",
     SERVER_ERROR_CODES |-> <<>>]

\* applyServerConfig taking maxMessages as the server gives it.
applyServerConfig_noClamp(c, cfg) ==
    IF cfg = NullCfg THEN c
    ELSE [c EXCEPT
            !.MAX_MESSAGE_BYTES =
                IF isFinite(cfg.maxMessageBytes) THEN cfg.maxMessageBytes.v ELSE @,
            !.MAX_MESSAGES =
                IF isFinite(cfg.maxMessages) /\ cfg.maxMessages.v > 0
                THEN cfg.maxMessages.v ELSE @,
            !.STORAGE_MAX_BYTES =
                IF isFinite(cfg.storageMaxBytes) /\ cfg.storageMaxBytes.v > 0
                THEN Max(Num(MiB), cfg.storageMaxBytes.v) ELSE @,
            !.STORAGE_MAX_AGE_DAYS =
                IF isFinite(cfg.storageMaxAgeDays) /\ cfg.storageMaxAgeDays.v > 0
                THEN Max(Num(1), cfg.storageMaxAgeDays.v) ELSE @,
            !.NAME_PATTERN =
                IF cfg.namePattern.kind = "string" /\ cfg.namePattern.v # ""
                   /\ ~regExpThrows(cfg.namePattern.v)
                THEN cfg.namePattern.v ELSE @,
            !.SERVER_ERROR_CODES =
                IF cfg.errorCodes.kind = "array" THEN unique(cfg.errorCodes.v) ELSE @]

\* config.js applyServerConfig: c holds the settings before the call.
applyServerConfig(c, cfg) ==
    IF cfg = NullCfg THEN c
    ELSE [c EXCEPT
            !.MAX_MESSAGE_BYTES =
                IF isFinite(cfg.maxMessageBytes) THEN cfg.maxMessageBytes.v ELSE @,
            !.MAX_MESSAGES =
                IF isFinite(cfg.maxMessages) /\ cfg.maxMessages.v > 0
                THEN Max(Num(10), Min(Num(1000), cfg.maxMessages.v)) ELSE @,
            !.STORAGE_MAX_BYTES =
                IF isFinite(cfg.storageMaxBytes) /\ cfg.storageMaxBytes.v > 0
                THEN Max(Num(MiB), cfg.storageMaxBytes.v) ELSE @,
            !.STORAGE_MAX_AGE_DAYS =
                IF isFinite(cfg.storageMaxAgeDays) /\ cfg.storageMaxAgeDays.v > 0
                THEN Max(Num(1), cfg.storageMaxAgeDays.v) ELSE @,
            !.NAME_PATTERN =
                IF cfg.namePattern.kind = "string" /\ cfg.namePattern.v # ""
                   /\ ~regExpThrows(cfg.namePattern.v)
                THEN cfg.namePattern.v ELSE @,
            !.SERVER_ERROR_CODES =
                IF cfg.errorCodes.kind = "array" THEN unique(cfg.errorCodes.v) ELSE @]

\* ------------------------------------------ the room directory (server)
\* The room-scope connections of the server.
Conns == 1..MaxConns

\* A connection of the server: name is the confirmed display name, "" until
\* the handshake.
FreeConn == [st |-> "free", room |-> "", name |-> ""]

\* No connection yet; users is the member list broadcast last to each room,
\* got the member list each connection received last.
InitServer ==
    [conn |-> [c \in Conns |-> FreeConn],
     users |-> [r \in Rooms |-> {}],
     got |-> [c \in Conns |-> {}]]

\* The open connections of room r with a confirmed display name.
Members(sv, r) ==
    {c \in Conns : sv.conn[c].st = "open" /\ sv.conn[c].room = r /\ sv.conn[c].name # ""}

\* The member-name list of room r: one entry, with the name, for every
\* member connection.
memberList(sv, r) == {<<c, sv.conn[c].name>> : c \in Members(sv, r)}

\* The users envelope of room r is sent to every member of the room.
broadcastUsers(sv, r) ==
    [sv EXCEPT !.users[r] = memberList(sv, r),
               !.got = [c \in Conns |->
                           IF c \in Members(sv, r) THEN memberList(sv, r) ELSE @[c]]]

\* A room-scope connection to room r is accepted.
accept(sv, c, r) == [sv EXCEPT !.conn[c] = [st |-> "open", room |-> r, name |-> ""]]

\* The connection leaves: it is removed and the room is told.
leave(sv, c) ==
    IF sv.conn[c].name # ""
    THEN broadcastUsers([sv EXCEPT !.conn[c] = FreeConn, !.got[c] = {}], sv.conn[c].room)
    ELSE [sv EXCEPT !.conn[c] = FreeConn, !.got[c] = {}]

\* The handshake admitting the member without telling the room.
handshake_noBroadcast(sv, c, name) ==
    IF ~validName(name) THEN leave(sv, c)
    ELSE [sv EXCEPT !.conn[c].name = name]

\* The handshake {username} on a connection: without a legal display name
\* the server closes the connection, else the member is admitted and the
\* room is told.
handshake(sv, c, name) ==
    IF ~validName(name) THEN leave(sv, c)
    ELSE broadcastUsers([sv EXCEPT !.conn[c].name = name], sv.conn[c].room)

\* A rename envelope: a legal name replaces the display name and the room
\* is told; any other is rejected.
rename(sv, c, name) ==
    IF ~validName(name) THEN sv
    ELSE broadcastUsers([sv EXCEPT !.conn[c].name = name], sv.conn[c].room)

\* ------------------------------------------------ storage.js, the store
\* A localStorage key: its prefix and the rest of it.
getStorageKey(roomId) == <<STORAGE_PREFIX, roomId>>
NameKey == <<"lanchat_", "username">>
ThemeKey == <<"lanchat_", "theme">>
Keys == {getStorageKey(r) : r \in Rooms} \cup {NameKey, ThemeKey}

\* The value of a key: none (getItem gives null), a plain string, the JSON
\* text of a record, or text JSON.parse rejects.
NoItem == [kind |-> "none", version |-> 0, roomId |-> "", messages |-> <<>>, timestamp |-> 0]
Plain == [NoItem EXCEPT !.kind = "plain"]
Garbage == [NoItem EXCEPT !.kind = "garbage"]

\* JSON.stringify of a record: version 0 stands for a record without the tag.
Json(version, roomId, messages, timestamp) ==
    [kind |-> "json", version |-> version, roomId |-> roomId,
     messages |-> messages, timestamp |-> timestamp]

\* A message envelope; data tells whether it carries a file payload.
Msg(type, id, data) == [type |-> type, id |-> id, data |-> data]
NullMsg == Msg("null", 0, FALSE)

\* value.length * 2 in units of UNIT bytes: an envelope without payload is
\* one unit long, a payload two more, a record has one unit of its own.
MsgBytes(m) == IF m.data THEN 3 ELSE 1

RECURSIVE SumBytes(_)
SumBytes(ms) == IF ms = <<>> THEN 0 ELSE MsgBytes(Head(ms)) + SumBytes(Tail(ms))

Bytes(v) ==
    CASE v.kind = "none" -> 0
      [] v.kind = "json" -> 1 + SumBytes(v.messages)
      [] OTHER -> 1

\* Array.prototype.slice(-k): the last k elements; slice(-0) is slice(0),
\* the whole array.
SliceLast(ms, k) ==
    IF k = 0 \/ k >= Len(ms) THEN ms ELSE SubSeq(ms, Len(ms) - k + 1, Len(ms))

RECURSIVE SumUsage(_, _)
SumUsage(store, ks) ==
    IF ks = {} THEN 0
    ELSE LET k == CHOOSE x \in ks : TRUE IN Bytes(store[k]) + SumUsage(store, ks \ {k})

\* storage.js getStorageUsage: every key of the store counts.
getStorageUsage(t) == SumUsage(t.localStorage, Keys)

\* localStorage.setItem: the browser refuses a value that takes the store
\* over its quota and raises QuotaExceededError.
setItem(t, key, value) ==
    IF SumUsage([t.localStorage EXCEPT ![key] = value], Keys) > t.quota
    THEN [t EXCEPT !.thrown = "QuotaExceededError"]
    ELSE [t EXCEPT !.localStorage[key] = value]

removeItem(t, key) == [t EXCEPT !.localStorage[key] = NoItem]

\* console.warn
warn(t, text) == Log(t, E("warn", text, "", 0, 0))

\* prepareMessageForStorage returning a file envelope as it is.
prepareMessageForStorage_keepData(m) ==
    IF m.type \in {"text", "status", "file"} THEN m ELSE NullMsg

\* storage.js prepareMessageForStorage: text and status are stored whole, a
\* file without its data, anything else not at all.
prepareMessageForStorage(m) ==
    IF m.type \in {"text", "status"} THEN m
    ELSE IF m.type = "file" THEN [m EXCEPT !.data = FALSE]
    ELSE NullMsg

\* messages.map(prepareMessageForStorage).filter((msg) => msg !== null)
storableMessages(ms) ==
    SelectSeq([i \in 1..Len(ms) |-> prepareMessageForStorage(ms[i])],
              LAMBDA m : m # NullMsg)

\* loadRoomMessages returning every message of the record.
loadRoomMessages_whole(t, roomId) ==
    LET v == t.localStorage[getStorageKey(roomId)] IN
    IF v.kind = "json" /\ v.version = STORAGE_VERSION THEN v.messages ELSE <<>>

\* storage.js loadRoomMessages, the value returned.
loadRoomMessages(t, roomId) ==
    LET v == t.localStorage[getStorageKey(roomId)] IN
    IF v.kind = "none" THEN <<>>
    ELSE IF v.kind # "json" THEN <<>>
    ELSE IF v.version = 0 \/ v.version # STORAGE_VERSION THEN <<>>
    ELSE IF Len(v.messages) > MAX_MESSAGES THEN SliceLast(v.messages, MAX_MESSAGES)
    ELSE v.messages

\* loadRoomMessages leaving the record of another version where it is.
loadRoomMessagesStore_keep(t, roomId) ==
    LET v == t.localStorage[getStorageKey(roomId)] IN
    IF v.kind = "json" /\ v.version # STORAGE_VERSION THEN warn(t, "versionMismatch")
    ELSE t

\* storage.js loadRoomMessages, the store it leaves: a parsed record of
\* another version is removed; the error of JSON.parse is caught.
loadRoomMessagesStore(t, roomId) ==
    LET v == t.localStorage[getStorageKey(roomId)] IN
    IF v.kind = "none" THEN t
    ELSE IF v.kind # "json" THEN warn(t, "loadFailed")
    ELSE IF v.version = 0 \/ v.version # STORAGE_VERSION
    THEN removeItem(warn(t, "versionMismatch"), getStorageKey(roomId))
    ELSE t

\* Whether cleanupExpiredData removes the value of a room key: it does not
\* parse, or it carries a timestamp older than maxAge.
Expired(t, v, maxAge) ==
    \/ v.kind \in {"garbage", "plain"}
    \/ v.kind = "json" /\ v.timestamp # 0 /\ t.now - v.timestamp > maxAge

\* cleanupExpiredData visiting every key of the store.
cleanupExpiredData_anyKey(t, maxAge) ==
    [t EXCEPT !.localStorage =
        [k \in Keys |-> IF Expired(t, @[k], maxAge) THEN NoItem ELSE @[k]]]

\* storage.js cleanupExpiredData(maxAge), maxAge in milliseconds; it logs
\* how many records it removed.
cleanupExpiredData(t, maxAge) ==
    LET keysToRemove == {k \in Keys : k[1] = STORAGE_PREFIX
                                       /\ Expired(t, t.localStorage[k], maxAge)}
        t1 == [t EXCEPT !.localStorage =
                  [k \in Keys |-> IF k \in keysToRemove THEN NoItem ELSE @[k]]]
    IN  IF keysToRemove # {}
        THEN Log(t1, E("log", "cleanedExpired", "", 0, Cardinality(keysToRemove)))
        ELSE t1

\* cleanupNonExistentRooms keeping the listed rooms only.
cleanupNonExistentRooms_listedOnly(t, rooms, current) ==
    [t EXCEPT !.localStorage =
        [k \in Keys |-> IF k[1] = STORAGE_PREFIX /\ k[2] \notin rooms
                        THEN NoItem ELSE @[k]]]

\* storage.js cleanupNonExistentRooms
cleanupNonExistentRooms(t, rooms, current) ==
    [t EXCEPT !.localStorage =
        [k \in Keys |-> IF k[1] = STORAGE_PREFIX /\ k[2] \notin rooms \cup {current}
                        THEN NoItem ELSE @[k]]]

\* storage.js saveRoomMessages, the write: localStorage.setItem of the record.
writeRecord(t, roomId, finalMessages) ==
    setItem(t, getStorageKey(roomId), Json(STORAGE_VERSION, roomId, finalMessages, t.now))

\* storage.js saveRoomMessages, after its sweep: when the usage and the new
\* record are still over the budget, the newer half of the messages is kept.
writeAfterSweep(t, roomId, storable, newSize) ==
    IF getStorageUsage(t) + newSize > STORAGE_MAX_BYTES
    THEN writeRecord(warn(t, "keepHalf"), roomId, SliceLast(storable, Len(storable) \div 2))
    ELSE writeRecord(t, roomId, storable)

\* storage.js saveRoomMessages, from the size test on: over the budget, the
\* expired records are swept first.
writeWithinBudget(t, roomId, storable, newSize) ==
    IF getStorageUsage(t) + newSize > STORAGE_MAX_BYTES
    THEN writeAfterSweep(cleanupExpiredData(warn(t, "overBudget"), MaxAgeMs),
                         roomId, storable, newSize)
    ELSE writeRecord(t, roomId, storable)

\* storage.js saveRoomMessages, its catch block: the error is logged, and a
\* QuotaExceededError is thrown again (thrown stays set).
saveFailed(t) ==
    IF t.thrown = "QuotaExceededError" THEN warn(t, "quotaExceeded") ELSE t

\* storage.js saveRoomMessages
saveRoomMessages(t, roomId, messages) ==
    saveFailed(writeWithinBudget(t, roomId, storableMessages(messages),
        Bytes(Json(STORAGE_VERSION, roomId, storableMessages(messages), t.now))))

\* ------------------------------------------------ messages.js, the pane
\* addMessage making room only once the pane holds more than MAX_MESSAGES.
addMessage_lateEviction(t, m) ==
    LET n == Len(t.rendered)
        kept == IF n > MAX_MESSAGES
                THEN SubSeq(t.rendered, (n - MAX_MESSAGES + 1) + 1, n)
                ELSE t.rendered
    IN  IF Kept(t) THEN [t EXCEPT !.rendered = Append(kept, m)] ELSE t

\* messages.js addMessage: the oldest nodes go when the pane is full, then
\* the node of m is appended.
addMessage(t, m) ==
    LET n == Len(t.rendered)
        kept == IF n >= MAX_MESSAGES
                THEN SubSeq(t.rendered, (n - MAX_MESSAGES + 1) + 1, n)
                ELSE t.rendered
    IN  IF Kept(t) THEN [t EXCEPT !.rendered = Append(kept, m)] ELSE t

RECURSIVE addMessages(_, _)
addMessages(t, ms) ==
    IF ms = <<>> THEN t ELSE addMessages(addMessage(t, Head(ms)), Tail(ms))

\* messages.js clearMessages
clearMessages(t) == [t EXCEPT !.rendered = <<>>]

\* ------------------------------------------------------------- room.js
\* state.js addCurrentRoomMessage
addCurrentRoomMessage(t, m) == [t EXCEPT !.currentRoomMessages = Append(@, m)]

\* room.js loadRoomHistory
loadRoomHistory(t, roomId) ==
    LET messages == loadRoomMessages(t, roomId)
        t1 == loadRoomMessagesStore(t, roomId)
    IN  IF messages # <<>>
        THEN [addMessages(clearMessages(t1), messages) EXCEPT !.currentRoomMessages = messages]
        ELSE [t1 EXCEPT !.currentRoomMessages = <<>>]

\* room.js saveCurrentRoomMessages, its catch block: the error of a failed
\* save is logged and goes no further.
saveErrorCaught(t) ==
    IF t.thrown # "" THEN warn([t EXCEPT !.thrown = ""], "saveFailed") ELSE t

\* saveCurrentRoomMessages letting the error of the save through.
saveCurrentRoomMessages_rethrow(t, roomId) ==
    LET t1 == saveRoomMessages(t, roomId, t.currentRoomMessages) IN
    IF t1.thrown # "" THEN warn(t1, "saveFailed") ELSE t1

\* room.js saveCurrentRoomMessages: the error of a failed save is caught
\* here and logged.
saveCurrentRoomMessages(t, roomId) ==
    saveErrorCaught(saveRoomMessages(t, roomId, t.currentRoomMessages))

\* room.js addMessageToCurrentRoom
addMessageToCurrentRoom(t, m, roomId) ==
    saveCurrentRoomMessages(addCurrentRoomMessage(t, m), roomId)

\* ------------------------------------------------- main.js event handlers
\* ui-panels.js updateLeaveButton, reached through resetRoomView.
updateLeaveButton(t, room) == [t EXCEPT !.leaveBtn = (room # "" /\ room # LOBBY_ROOM)]

\* The opened handler adding the join line to the history it finds.
openedHandler_noLoad(t, roomId) ==
    LET joinMessage == Msg("status", t.nextId, FALSE)
        t2 == addMessage(t, joinMessage)
        t3 == addMessageToCurrentRoom(t2, joinMessage, roomId)
    IN  IF Kept(t)
        THEN [t3 EXCEPT !.nextId = @ + 1, !.ovf = @ \/ t.nextId > MaxMsgs]
        ELSE t

\* main.js opened handler: the history of the room is loaded, the join line
\* is shown, added to the history and saved.
openedHandler(t, roomId) ==
    LET joinMessage == Msg("status", t.nextId, FALSE)
        t1 == loadRoomHistory(t, roomId)
        t2 == addMessage(t1, joinMessage)
        t3 == addMessageToCurrentRoom(t2, joinMessage, roomId)
    IN  IF Kept(t)
        THEN [t3 EXCEPT !.nextId = @ + 1, !.ovf = @ \/ t.nextId > MaxMsgs]
        ELSE t

\* main.js message handler, the loop of its catch block: the age window is
\* STORAGE_MAX_AGE_DAYS / ageDivider, which cleanupExpiredData compares with
\* a whole number of milliseconds.
RECURSIVE ageHalving(_, _)

\* main.js message handler, after a save it tried again: done when the save
\* went through, else the loop goes on from ageDivider.
retried(t, ageDivider) ==
    IF t.thrown = "" THEN t ELSE ageHalving([t EXCEPT !.thrown = ""], ageDivider)

ageHalving(t, ageDivider) ==
    IF ageDivider > 128 THEN warn(t, "allCleanupFailed")
    ELSE retried(saveCurrentRoomMessages(
                     cleanupExpiredData(t, STORAGE_MAX_AGE_DAYS \div ageDivider),
                     t.currentRoom),
                 ageDivider * 2)

\* main.js message handler, its catch block.
escalate(t) ==
    retried(saveCurrentRoomMessages(
                cleanupNonExistentRooms(warn(t, "quota"), t.existingRooms, t.currentRoom),
                t.currentRoom),
            2)

\* main.js message handler, its try and catch: a QuotaExceededError of the
\* save starts the cleanup.
afterSave(t) ==
    IF t.thrown = "QuotaExceededError" THEN escalate([t EXCEPT !.thrown = ""]) ELSE t

\* The envelope took the identity nextId.
numbered(t, id) == [t EXCEPT !.nextId = id + 1, !.ovf = @ \/ id > MaxMsgs]

\* main.js message handler for an envelope of the given type.
messageHandler(t, type) ==
    IF Kept(t)
    THEN numbered(afterSave(saveCurrentRoomMessages(
                          addCurrentRoomMessage(addMessage(t, Msg(type, t.nextId, type = "file")),
                                            Msg(type, t.nextId, type = "file")),
                      t.currentRoom)),
                  t.nextId)
    ELSE t

\* main.js roomSwitch handler.
roomSwitchHandler(t, roomId) ==
    LET t1 == updateLeaveButton(t, roomId) IN
    IF Kept(t)
    THEN cleanupNonExistentRooms(loadRoomHistory(clearMessages(t1), roomId),
                                 t1.existingRooms, roomId)
    ELSE t1

\* A call of a handler of main.js, or of the pane, waiting to run; room is
\* the argument of the handler, or what transport.currentRoom is when the
\* handler reads it.
Called(t, e, room) ==
    [t EXCEPT !.calls = Append(@, [ev |-> e.ev, kind |-> e.kind, room |-> room])]

\* Transport._emit: the handler main.js registers for the event is called.
emit(t, e) ==
    LET t1 == Log(t, e) IN
    CASE e.ev \in {"closed", "message"} -> Called(t1, e, t1.currentRoom)
      [] e.ev \in {"roomSwitch", "opened"} -> Called(t1, e, e.room)
      [] e.ev = "rooms" -> t1
      [] OTHER -> t1

\* The banner of the connection status is followed only where "banner" is
\* watched.
Bannered(t) == "banner" \in t.watch

\* state.js showConnectionStatus(text, scope): a notice of the room does not
\* replace one of the lobby.
showConnectionStatus(t, scope) ==
    IF scope = "lobby" \/ t.connectionStatus.lastConnectionScope # "lobby"
    THEN [t EXCEPT !.connectionStatus = [hidden |-> FALSE, lastConnectionScope |-> scope]]
    ELSE t

\* state.js hideConnectionStatus(scope): only the scope of the notice shown
\* hides it.
hideConnectionStatus(t, scope) ==
    IF scope = t.connectionStatus.lastConnectionScope
    THEN [t EXCEPT !.connectionStatus = [hidden |-> TRUE, lastConnectionScope |-> ""]]
    ELSE t

\* state.js handleConnectionEvent(evt)
handleConnectionEvent(t, scope, state) ==
    LET t1 == [t EXCEPT !.reported[scope] = state] IN
    IF state = "reconnecting" THEN showConnectionStatus(t1, scope)
    ELSE IF state = "connected" THEN hideConnectionStatus(t1, scope)
    ELSE t1

\* storage.js _emitConnection(scope, state, payload): the connection handler
\* of main.js is handleConnectionEvent.
emitConnection(t, scope, state, room, delay) ==
    IF Bannered(t)
    THEN handleConnectionEvent(emit(t, E(state, scope, room, 0, delay)), scope, state)
    ELSE emit(t, E(state, scope, room, 0, delay))

\* messages.js statusMessage: a status line is shown.
statusMessage(t, text) ==
    LET e == E("status", text, "", 0, 0) IN Called(Log(t, e), e, "")

\* One queued call: the handler main.js registers for the event, or the
\* addMessage of statusMessage.
runHandler(t, c) ==
    CASE c.ev = "closed" -> updateLeaveButton(t, c.room)
      [] c.ev = "roomSwitch" -> roomSwitchHandler(t, c.room)
      [] c.ev = "opened" -> openedHandler(t, c.room)
      [] c.ev = "message" -> messageHandler(t, c.kind)
      [] c.ev = "status" -> addMessage(t, Msg("status", t.nextId, FALSE))
      [] OTHER -> t

\* The queued calls run in the order they were made. The handlers read and
\* write the view and the history only, which the Transport never reads, so
\* the state they leave is the one they leave when each runs inside its
\* _emit.
RECURSIVE dispatch(_, _)
dispatch(t, calls) ==
    IF calls = <<>> THEN t ELSE dispatch(runHandler(t, Head(calls)), Tail(calls))

\* The state a step leaves is assigned to the variables.
Assign(t) ==
    /\ ~t.ovf
    /\ booted' = t.booted
    /\ username' = t.username
    /\ lobbyWs' = t.lobbyWs
    /\ roomWs' = t.roomWs
    /\ currentRoom' = t.currentRoom
    /\ lobbyRetry' = t.lobbyRetry
    /\ roomRetry' = t.roomRetry
    /\ lobbyTimer' = t.lobbyTimer
    /\ roomTimer' = t.roomTimer
    /\ roomManualClose' = t.roomManualClose
    /\ timers' = t.timers
    /\ sock' = t.sock
    /\ existingRooms' = t.existingRooms
    /\ leaveBtn' = t.leaveBtn
    /\ reads' = t.reads
    /\ localStorage' = t.localStorage
    /\ quota' = t.quota
    /\ currentRoomMessages' = t.currentRoomMessages
    /\ rendered' = t.rendered
    /\ now' = t.now
    /\ nextId' = t.nextId
    /\ lastSched' = t.lastSched
    /\ config' = config
    /\ server' = server
    /\ connectionStatus' = t.connectionStatus
    /\ reported' = t.reported
    /\ out' = t.out
    /\ watch' = t.watch

\* The step is taken: the queued handlers run and the state is assigned.
Apply(t) == Assign(dispatch(t, t.calls))

\* --------------------------------------------------------------- Transport
\* Transport._clearTimer: clearTimeout on the handle, which holds the timer
\* set last, and the handle is nulled.
clearTimer(t, type) ==
    IF type = "lobby"
    THEN IF t.lobbyTimer
         THEN Log([t EXCEPT !.timers["lobby"] = SubSeq(@, 1, Len(@) - 1), !.lobbyTimer = FALSE],
                  E("clearTimer", "lobby", "", 0, 0))
         ELSE t
    ELSE IF t.roomTimer
         THEN Log([t EXCEPT !.timers["room"] = SubSeq(@, 1, Len(@) - 1), !.roomTimer = FALSE],
                  E("clearTimer", "room", "", 0, 0))
         ELSE t

\* Transport._openLobbySocket, the part that runs at once.
openLobbySocket(t) ==
    LET s == FreeSock(t) IN
    IF s = 0 THEN [t EXCEPT !.ovf = TRUE]
    ELSE [newWebSocket(t, s, "lobby", "") EXCEPT !.lobbyWs = s]

\* Transport._openRoomSocket, the part that runs at once.
openRoomSocket(t, roomId) ==
    LET s == FreeSock(t) IN
    IF s = 0 THEN [t EXCEPT !.ovf = TRUE]
    ELSE [newWebSocket(t, s, "room", roomId) EXCEPT !.roomWs = s]

\* Transport.connectLobby
connectLobby(t) ==
    IF wsOpen(t, t.lobbyWs) THEN t
    ELSE openLobbySocket(clearTimer(t, "lobby"))

\* connectRoom creating the socket before it notifies the room switch.
connectRoom_switchAfterOpen(t0, roomId) ==
    LET t == Log(t0, E("connectRoom", "", roomId, 0, 0)) IN
    IF t.username = "" THEN t
    ELSE IF wsOpen(t, t.roomWs)
    THEN IF t.currentRoom = roomId THEN t
         ELSE [wsClose([t EXCEPT !.roomManualClose = TRUE], t.roomWs) EXCEPT !.currentRoom = roomId]
    ELSE emit(openRoomSocket(clearTimer([t EXCEPT !.currentRoom = roomId], "room"), roomId),
              E("roomSwitch", "", roomId, 0, 0))

\* connectRoom without the display-name gate.
connectRoom_noGate(t0, roomId) ==
    LET t == Log(t0, E("connectRoom", "", roomId, 0, 0)) IN
    IF wsOpen(t, t.roomWs)
    THEN IF t.currentRoom = roomId THEN t
         ELSE [wsClose([t EXCEPT !.roomManualClose = TRUE], t.roomWs) EXCEPT !.currentRoom = roomId]
    ELSE openRoomSocket(
             clearTimer(emit([t EXCEPT !.currentRoom = roomId], E("roomSwitch", "", roomId, 0, 0)),
                        "room"),
             roomId)

\* Transport.connectRoom
\* connectRoom leaving the reconnect timer of the room scope pending.
connectRoom_keepTimer(t0, roomId) ==
    LET t == Log(t0, E("connectRoom", "", roomId, 0, 0)) IN
    IF t.username = "" THEN t
    ELSE IF wsOpen(t, t.roomWs)
    THEN IF t.currentRoom = roomId THEN t
         ELSE [wsClose([t EXCEPT !.roomManualClose = TRUE], t.roomWs) EXCEPT !.currentRoom = roomId]
    ELSE openRoomSocket(
             emit([t EXCEPT !.currentRoom = roomId], E("roomSwitch", "", roomId, 0, 0)),
             roomId)

connectRoom(t0, roomId) ==
    LET t == Log(t0, E("connectRoom", "", roomId, 0, 0)) IN
    IF t.username = "" THEN t
    ELSE IF wsOpen(t, t.roomWs)
    THEN IF t.currentRoom = roomId THEN t
         ELSE [wsClose([t EXCEPT !.roomManualClose = TRUE], t.roomWs) EXCEPT !.currentRoom = roomId]
    ELSE openRoomSocket(
             clearTimer(emit([t EXCEPT !.currentRoom = roomId], E("roomSwitch", "", roomId, 0, 0)),
                        "room"),
             roomId)

\* Transport.joinRoom
joinRoom(t, roomId) == IF roomId = "" THEN t ELSE connectRoom(t, roomId)

\* Transport.requestCreate
requestCreate(t, room) ==
    LET t1 == IF ~wsOpen(t, t.lobbyWs) THEN connectLobby(t) ELSE t
        s == t1.lobbyWs
    IN  IF wsOpen(t1, s) THEN wsSend(t1, s, [type |-> "create", arg |-> room])
        ELSE IF s # 0 THEN [t1 EXCEPT !.sock[s].onOpen = Append(@, room)]
        ELSE t1

\* send without the sendFail notification.
send_silentWhenClosed(t, payload) ==
    LET t0 == Log(t, E("send", payload.type, "", 0, 0)) IN
    IF wsOpen(t0, t0.roomWs) THEN wsSend(t0, t0.roomWs, payload)
    ELSE t0

\* Transport.send
send(t, payload) ==
    LET t0 == Log(t, E("send", payload.type, "", 0, 0)) IN
    IF wsOpen(t0, t0.roomWs) THEN wsSend(t0, t0.roomWs, payload)
    ELSE emit(t0, E("sendFail", "", "", 0, 0))

\* _scheduleReconnect without the test of the timer handle.
scheduleReconnect_noTimerTest(t, type, roomId) ==
    LET isLobby == type = "lobby"
        ws == IF isLobby THEN t.lobbyWs ELSE t.roomWs
        retry == IF isLobby THEN t.lobbyRetry ELSE t.roomRetry
    IN  IF wsOpen(t, ws) \/ (~isLobby /\ roomId = "") THEN t
        ELSE LET t1 == emitConnection(t, type, "reconnecting", roomId, retry)
                 t2 == Sched([t1 EXCEPT !.timers[type] = Append(@, [delay |-> retry, room |-> roomId])],
                             type, retry)
                 t3 == IF isLobby THEN [t2 EXCEPT !.lobbyTimer = TRUE]
                                  ELSE [t2 EXCEPT !.roomTimer = TRUE]
             IN  Log(t3, E("setTimer", type, roomId, 0, retry))

\* Transport._scheduleReconnect, the part that runs at once: the timer set
\* captures the retry delay and the room id.
scheduleReconnect(t, type, roomId) ==
    LET isLobby == type = "lobby"
        ws == IF isLobby THEN t.lobbyWs ELSE t.roomWs
        timer == IF isLobby THEN t.lobbyTimer ELSE t.roomTimer
        retry == IF isLobby THEN t.lobbyRetry ELSE t.roomRetry
    IN  IF timer \/ wsOpen(t, ws) \/ (~isLobby /\ roomId = "") THEN t
        ELSE LET t1 == emitConnection(t, type, "reconnecting", roomId, retry)
                 t2 == Sched([t1 EXCEPT !.timers[type] = Append(@, [delay |-> retry, room |-> roomId])],
                             type, retry)
                 t3 == IF isLobby THEN [t2 EXCEPT !.lobbyTimer = TRUE]
                                  ELSE [t2 EXCEPT !.roomTimer = TRUE]
             IN  Log(t3, E("setTimer", type, roomId, 0, retry))

\* The timer callback without the doubling.
timerCallback_keepDelay(t, type, tm) ==
    LET isLobby == type = "lobby"
        r == tm.delay
        t1 == Log(IF isLobby THEN [t EXCEPT !.lobbyTimer = FALSE] ELSE [t EXCEPT !.roomTimer = FALSE],
                  E("timerNull", type, "", 0, 0))
        t2 == Log(IF isLobby THEN [t1 EXCEPT !.lobbyRetry = r] ELSE [t1 EXCEPT !.roomRetry = r],
                  E("retry", type, "", 0, r))
    IN  IF isLobby THEN openLobbySocket(t2)
        ELSE IF t2.username # "" THEN openRoomSocket(t2, tm.room)
        ELSE t2

\* Transport._scheduleReconnect, the setTimeout callback of timer tm.
timerCallback(t, type, tm) ==
    LET isLobby == type = "lobby"
        r == Min(tm.delay * 2, RETRY_MAX_MS)
        t1 == Log(IF isLobby THEN [t EXCEPT !.lobbyTimer = FALSE] ELSE [t EXCEPT !.roomTimer = FALSE],
                  E("timerNull", type, "", 0, 0))
        t2 == Log(IF isLobby THEN [t1 EXCEPT !.lobbyRetry = r] ELSE [t1 EXCEPT !.roomRetry = r],
                  E("retry", type, "", 0, r))
    IN  IF isLobby THEN openLobbySocket(t2)
        ELSE IF t2.username # "" THEN openRoomSocket(t2, tm.room)
        ELSE t2

\* The listeners requestCreate added to a socket, run in the order added.
RECURSIVE runOnOpen(_, _, _)
runOnOpen(t, s, rooms) ==
    IF rooms = <<>> THEN t
    ELSE runOnOpen(wsSend(t, s, [type |-> "create", arg |-> Head(rooms)]), s, Tail(rooms))

\* Transport._openLobbySocket, the open listener, then requestCreate's.
lobbyOnOpen(t, s) ==
    LET t1 == Sched([t EXCEPT !.lobbyRetry = RETRY_BASE_MS], "lobby", 0)
        t2 == emitConnection(t1, "lobby", "connected", "", 0)
    IN  [runOnOpen(t2, s, t2.sock[s].onOpen) EXCEPT !.sock[s].onOpen = <<>>]

\* main.js rooms handler.
roomsHandler(t, list) ==
    LET t1 == [t EXCEPT !.existingRooms = {LOBBY_ROOM} \cup list] IN
    IF Kept(t) THEN cleanupNonExistentRooms(t1, t1.existingRooms, t1.currentRoom) ELSE t1

\* JSON.parse(ev.data) followed by m.type raises an error, which the catch
\* of the listener swallows: the data is not JSON, or it is the JSON null.
parseFails(m) == m.type \in {"notJson", "null"}

\* Transport._openLobbySocket, the message listener.
lobbyOnMessage(t, s, m) ==
    IF parseFails(m) THEN t
    ELSE IF m.type = "error" THEN emit(t, E("error", m.arg, "", s, 0))
    ELSE IF m.type = "rooms" THEN roomsHandler(emit(t, E("rooms", "", "", s, 0)), m.list)
    ELSE IF m.type = "created" /\ m.arg # "" THEN connectRoom(t, m.arg)
    ELSE t

\* Transport._openLobbySocket, the close listener.
lobbyOnClose(t) == scheduleReconnect([t EXCEPT !.lobbyWs = 0], "lobby", "")

\* Transport._openRoomSocket, the open listener of a socket made for roomId.
\* The handshake is sent on this.roomWs; thrown tells whether wsSend raised
\* on a handle that is not an open socket.
roomOnOpen(t, roomId, thrown) ==
    LET t1 == Sched([t EXCEPT !.roomRetry = RETRY_BASE_MS], "room", 0) IN
    IF t1.username # ""
    THEN IF thrown THEN t1
         ELSE LET t2 == wsSend(t1, t1.roomWs, [type |-> "hello", arg |-> t1.username])
                  t3 == emit(t2, E("opened", "", roomId, 0, 0))
              IN  emitConnection(t3, "room", "connected", roomId, 0)
    ELSE wsClose(t1, t1.roomWs)

\* Transport._openRoomSocket, the message listener.
roomOnMessage(t, s, m) ==
    IF parseFails(m) THEN t
    ELSE IF m.type = "error" THEN emit(t, E("error", m.arg, "", s, 0))
    ELSE IF m.type = "users" THEN emit(t, E("users", "", "", s, 0))
    ELSE emit(t, E("message", m.type, "", s, 0))

\* Transport._openRoomSocket, the close listener, for a close event of code.
roomOnClose(t, code) ==
    LET t1 == emit([t EXCEPT !.roomWs = 0], E("closed", "", "", 0, 0))
        t2 == IF code = 1008 THEN emit(t1, E("error", "ws_closed_1008", "", 0, 1008))
              ELSE IF code = 1009 THEN emit(t1, E("error", "ws_closed_1009", "", 0, 1009))
              ELSE t1
        manual == t2.roomManualClose
        t3 == [t2 EXCEPT !.roomManualClose = FALSE]
        shouldRetry == ~manual /\ code # 1008 /\ code # 1009
    IN  IF manual /\ t3.currentRoom # ""
        THEN openRoomSocket(
                 clearTimer(emit(t3, E("roomSwitch", "", t3.currentRoom, 0, 0)), "room"),
                 t3.currentRoom)
        ELSE IF shouldRetry /\ t3.currentRoom # ""
        THEN scheduleReconnect(t3, "room", t3.currentRoom)
        ELSE t3

\* ------------------------------------------------------------- user.js
\* user.js confirmUsername with v in the name box.
confirmUsername(t, v) ==
    IF v = "" THEN statusMessage(t, "enterUsername")
    ELSE IF ~validName(v) THEN statusMessage(t, "bad_username")
    ELSE IF v # t.username
    THEN LET t0 == [t EXCEPT !.username = v]
             t1 == IF Kept(t) THEN [setItem(t0, NameKey, Plain) EXCEPT !.thrown = ""] ELSE t0 IN
         IF wsOpen(t1, t1.roomWs) THEN send(t1, [type |-> "rename", arg |-> v]) ELSE t1
    ELSE t

\* user.js ensureUsername: the value it returns, and the state it leaves.
ensureUsernameOk(t, autoConfirm, v) == t.username # "" \/ (autoConfirm /\ v # "")

ensureUsername(t, autoConfirm, v) ==
    IF t.username # "" THEN t
    ELSE IF autoConfirm /\ v # "" THEN confirmUsername(t, v)
    ELSE statusMessage(t, "enterUsername")

\* room.js isRoomOpen
isRoomOpen(t) == t.roomWs # 0 /\ t.sock[t.roomWs].st = "open"

\* ---------------------------------------------------------------- actions
\* The page is loaded: the Transport is constructed, the pane is empty.
InitTransport ==
    /\ booted = FALSE
    /\ username = ""
    /\ lobbyWs = 0
    /\ roomWs = 0
    /\ currentRoom = ""
    /\ lobbyRetry = RETRY_BASE_MS
    /\ roomRetry = RETRY_BASE_MS
    /\ lobbyTimer = FALSE
    /\ roomTimer = FALSE
    /\ roomManualClose = FALSE
    /\ timers = [sc \in Scopes |-> <<>>]
    /\ sock = [s \in Socks |-> FreeSockRec]
    /\ existingRooms = {LOBBY_ROOM}
    /\ leaveBtn = FALSE
    /\ reads = 0
    /\ lastSched = [sc \in Scopes |-> 0]
    /\ config = DefaultConfig
    /\ server = InitServer
    /\ connectionStatus = [hidden |-> TRUE, lastConnectionScope |-> ""]
    /\ reported = [sc \in Scopes |-> ""]
    /\ out = <<>>
    /\ rendered = <<>>
    /\ now = T0
    /\ nextId = 1

\* A page loaded for the first time in its browser: nothing is stored.
InitState ==
    /\ InitTransport
    /\ currentRoomMessages = <<>>
    /\ localStorage = [k \in Keys |-> NoItem]
    /\ quota = STORAGE_MAX_BYTES + QuotaSlack

Init == InitState /\ watch = {}

\* init.js init: with a saved display name both scopes connect at once.
AppInit(saved) ==
    /\ ~booted
    /\ LET t0 == [St(E("op", "init", "", 0, 0)) EXCEPT !.booted = TRUE]
           t1 == IF saved # ""
                 THEN connectRoom(connectLobby([t0 EXCEPT !.username = saved]), LOBBY_ROOM)
                 ELSE statusMessage(t0, "enterUsername")
       IN  Apply(updateLeaveButton(t1, LOBBY_ROOM))

\* user.js initUserEvents: Enter in the name box or the confirm button.
ConfirmUsername(v) ==
    /\ booted
    /\ Apply(confirmUsername(St(E("op", "confirmUsername", "", 0, 0)), v))

\* The create-room button without the test of the room name.
CreateRoom_noRoomTest(v, roomName) ==
    /\ booted
    /\ username # "" => v = username
    /\ LET t0 == St(E("op", "createRoom", roomName, 0, v))
           t1 == ensureUsername(t0, TRUE, v)
       IN  IF ~ensureUsernameOk(t0, TRUE, v) THEN Apply(t1)
           ELSE Apply(requestCreate(connectLobby(t1), roomName))

\* events.js initRoomEvents: the create-room button, with v in the name box
\* and roomName in the room box; the entry of the step records both.
CreateRoom(v, roomName) ==
    /\ booted
    /\ username # "" => v = username
    /\ LET t0 == St(E("op", "createRoom", roomName, 0, v))
           t1 == ensureUsername(t0, TRUE, v)
       IN  IF ~ensureUsernameOk(t0, TRUE, v) THEN Apply(t1)
           ELSE IF ~validName(roomName) THEN Apply(statusMessage(t1, "bad_room"))
           ELSE Apply(requestCreate(connectLobby(t1), roomName))

\* main.js rooms handler: a click on an entry of the rendered room list,
\* which shows the list received last.
JoinRoom(r) ==
    /\ booted
    /\ r \in existingRooms \ {LOBBY_ROOM}
    /\ Apply(joinRoom(St(E("op", "joinRoom", r, 0, 0)), r))

\* events.js initLeaveRoomEvent: the leave button.
LeaveRoom ==
    /\ booted
    /\ leaveBtn
    /\ Apply(connectRoom(St(E("op", "leaveRoom", LOBBY_ROOM, 0, 0)), LOBBY_ROOM))

\* sendText without the test of the length.
sendText_noLimit(t0, v) ==
    IF ~ensureUsernameOk(t0, FALSE, "") THEN ensureUsername(t0, FALSE, "")
    ELSE IF ~isRoomOpen(t0) THEN statusMessage(t0, "sendFail")
    ELSE IF v = <<>> THEN t0
    ELSE send(t0, [type |-> "text", arg |-> "", bytes |-> jsonBytes(v)])

\* sendText showing the text at once, as the echo does.
sendText_renderLocally(t0, v) ==
    IF ~ensureUsernameOk(t0, FALSE, "") THEN ensureUsername(t0, FALSE, "")
    ELSE IF ~isRoomOpen(t0) THEN statusMessage(t0, "sendFail")
    ELSE IF v = <<>> THEN t0
    ELSE IF utf8ByteLength(v) > MAX_MESSAGE_BYTES THEN statusMessage(t0, "textTooLong")
    ELSE messageHandler(send(t0, [type |-> "text", arg |-> "", bytes |-> jsonBytes(v)]), "text")

\* sender.js sendText with the trimmed text v in the message box.
sendText(t0, v) ==
    IF ~ensureUsernameOk(t0, FALSE, "") THEN ensureUsername(t0, FALSE, "")
    ELSE IF ~isRoomOpen(t0) THEN statusMessage(t0, "sendFail")
    ELSE IF v = <<>> THEN t0
    ELSE IF utf8ByteLength(v) > MAX_MESSAGE_BYTES THEN statusMessage(t0, "textTooLong")
    ELSE send(t0, [type |-> "text", arg |-> "", bytes |-> jsonBytes(v)])

\* events.js initMessageInputEvents: Enter in the message box, or the send
\* button; the entry of the step records the byte length of the text.
SendText(v) ==
    /\ booted
    /\ Apply(sendText(St(E("op", "sendText", "", 0, utf8ByteLength(v))), v))

\* sender.js sendFile up to reader.readAsDataURL; big: the file is larger
\* than allowedFileOriginalBytes().
SendFile(big) ==
    /\ booted
    /\ LET t0 == St(E("op", "sendFile", "", 0, 0)) IN
       IF ~ensureUsernameOk(t0, FALSE, "") THEN Apply(ensureUsername(t0, FALSE, ""))
       ELSE IF ~isRoomOpen(t0) THEN Apply(statusMessage(t0, "sendFail"))
       ELSE IF big THEN Apply(statusMessage(t0, "fileTooLarge"))
       ELSE reads < MaxReads /\ Apply([t0 EXCEPT !.reads = @ + 1])

\* The data URLs a FileReader gives: base64 text of up to one byte more
\* than MAX_MESSAGE_BYTES.
DataUrls == {[i \in 1..k |-> "A"] : k \in 1..(MAX_MESSAGE_BYTES + 1)}

\* sender.js sendFile, reader.onload with the data URL read.
fileLoaded(t0, dataUrl) ==
    IF jsonBytes(dataUrl) > MAX_MESSAGE_BYTES THEN statusMessage(t0, "msgTooLarge")
    ELSE send(t0, [type |-> "file", arg |-> "", bytes |-> jsonBytes(dataUrl)])

\* The load event of a FileReader; the entry of the step records the bytes
\* of the envelope.
FileLoaded(dataUrl) ==
    /\ reads > 0
    /\ Apply(fileLoaded([St(E("op", "fileLoaded", "", 0, jsonBytes(dataUrl)))
                            EXCEPT !.reads = @ - 1],
                        dataUrl))

\* sender.js sendFile, reader.onerror.
FileError ==
    /\ reads > 0
    /\ Apply([St(E("op", "fileError", "", 0, 0)) EXCEPT !.reads = @ - 1])

\* The open event of socket s.
SockOpen(s) ==
    /\ sock[s].st = "connecting"
    /\ LET t0 == [St(E("op", "open", sock[s].room, s, 0)) EXCEPT !.sock[s].st = "open"] IN
       IF sock[s].scope = "lobby" THEN Apply(lobbyOnOpen(t0, s))
       ELSE \E thrown \in BOOLEAN :
                /\ thrown => (username # "" /\ ~wsOpen(t0, t0.roomWs))
                /\ Apply(roomOnOpen(t0, sock[s].room, thrown))

\* The close event of socket s: a connecting socket fails, an open one is
\* closed by the server or the network, a closing one completes.
SockClose(s, code) ==
    /\ sock[s].st \in {"connecting", "open", "closing"}
    /\ sock[s].st = "connecting" => code = 1006
    /\ LET t0 == [St(E("op", "close", sock[s].room, s, code)) EXCEPT !.sock[s] = FreeSockRec] IN
       IF sock[s].scope = "lobby" THEN Apply(lobbyOnClose(t0))
       ELSE Apply(roomOnClose(t0, code))

\* A message event on the open lobby socket s: the room list, or the answer
\* to a create request sent on s.
LobbyMessage(s, m) ==
    /\ sock[s].st = "open" /\ sock[s].scope = "lobby"
    /\ m.type \in {"created", "error"} => m.arg \in sock[s].req
    /\ LET t0 == St(E("op", "lobbyMessage", "", s, m.type))
           t1 == IF m.type = "rooms" THEN t0 ELSE [t0 EXCEPT !.sock[s].req = @ \ {m.arg}]
       IN  Apply(lobbyOnMessage(t1, s, m))

\* A message event on the open room socket s, which has sent its handshake.
RoomMessage(s, m) ==
    /\ sock[s].st = "open" /\ sock[s].scope = "room"
    /\ sock[s].first # ""
    /\ Apply(roomOnMessage(St(E("op", "roomMessage", "", s, m.type)), s, m))

\* Timer i of a scope fires: it is no longer pending, its callback runs.
TimerFire(type, i) ==
    /\ i \in 1..Len(timers[type])
    /\ LET tm == timers[type][i]
           rest == [j \in 1..(Len(timers[type]) - 1) |->
                       IF j < i THEN timers[type][j] ELSE timers[type][j + 1]]
           t0 == [St(E("op", "timer", tm.room, 0, tm.delay)) EXCEPT !.timers[type] = rest]
       IN  Apply(timerCallback(t0, type, tm))

LobbyMsgs ==
    [type : {"rooms"}, arg : {""}, list : SUBSET OtherRooms]
        \cup [type : {"created", "error"}, arg : OtherRooms, list : {{}}]

RoomMsgs == [type : {"error", "users", "text"}, arg : {""}]

\* What the user does with the name box, the room box and the room list,
\* for display names drawn from names.
User(names) ==
    \/ \E saved \in names \cup {""} : AppInit(saved)
    \/ \E v \in names \cup {"", "a b"} : ConfirmUsername(v)
    \/ \E v \in names \cup {"", "a b"}, r \in RoomInputs : CreateRoom(v, r)
    \/ \E r \in OtherRooms : JoinRoom(r)
    \/ LeaveRoom

\* What the browser and the server do to the sockets and the timers.
Net ==
    \/ \E s \in Socks : SockOpen(s)
    \/ \E s \in Socks, code \in CloseCodes : SockClose(s, code)
    \/ \E s \in Socks, m \in LobbyMsgs : LobbyMessage(s, m)
    \/ \E type \in Scopes, i \in 1..2 : TimerFire(type, i)

\* Text messages sent and messages received in the room.
Chat ==
    \/ \E v \in Texts : SendText(v)
    \/ \E s \in Socks, m \in RoomMsgs : RoomMessage(s, m)

\* Files sent.
Files ==
    \/ \E big \in BOOLEAN : SendFile(big)
    \/ \E dataUrl \in DataUrls : FileLoaded(dataUrl)
    \/ FileError

Next == User(Names) \/ Net \/ Chat \/ Files

Spec == Init /\ [][Next]_vars

\* The connection layer alone: one display name, no chat traffic.
NextConn == User({"ann"}) \/ Net

\* --------------------------------------------------- the message history
\* What an earlier session, or an earlier version of the client, may have
\* left under the key of a room: nothing, a record of this version written
\* a minute or more than maxAge ago, a record of another version or without the
\* tag, text that does not parse.
OldMsg == Msg("text", 0, FALSE)
RoomValues(roomId) ==
    {NoItem, Garbage,
     Json(STORAGE_VERSION, roomId, <<OldMsg>>, T0 - MinuteMs),
     Json(STORAGE_VERSION, roomId, <<OldMsg>>, T0 - MaxAgeMs - 1),
     Json(STORAGE_VERSION + 1, roomId, <<OldMsg>>, T0 - MinuteMs),
     Json(0, roomId, <<OldMsg>>, T0 - MinuteMs)}

StoredBefore ==
    /\ localStorage \in [Keys -> UNION {RoomValues(r) : r \in Rooms} \cup {Plain}]
    /\ \A r \in Rooms : localStorage[getStorageKey(r)] \in RoomValues(r)
    /\ localStorage[ThemeKey] = Plain
    /\ localStorage[NameKey] = Plain
    /\ quota \in Quotas
    /\ SumUsage(localStorage, Keys) <= Min(quota, STORAGE_MAX_BYTES)

InitStored ==
    InitTransport /\ currentRoomMessages = <<>> /\ StoredBefore /\ watch = {"store"}

\* The room socket of roomId opens after connectRoom(roomId): the Transport
\* announces it.
Opened(roomId) ==
    Apply(emit([St(E("op", "opened", roomId, 0, 0)) EXCEPT !.currentRoom = roomId],
               E("opened", "", roomId, 0, 0)))

\* The room socket closes for a switch to roomId: the Transport announces
\* the switch.
RoomSwitch(roomId) ==
    Apply(emit([St(E("op", "roomSwitch", roomId, 0, 0)) EXCEPT !.currentRoom = roomId],
               E("roomSwitch", "", roomId, 0, 0)))

\* The room socket delivers an envelope.
Message(type) ==
    /\ currentRoom # ""
    /\ Apply(emit(St(E("op", "message", currentRoom, 0, 0)), E("message", type, "", 0, 0)))

\* The lobby socket delivers the room list.
RoomList(list) ==
    Apply(roomsHandler(emit(St(E("op", "rooms", "", 0, 0)), E("rooms", "", "", 0, 0)), list))

\* events.js init: the timeout and the interval that sweep expired records.
ExpirySweep ==
    Apply(cleanupExpiredData(St(E("op", "sweep", "", 0, 0)), MaxAgeMs))

\* Time passes.
Tick(d) ==
    /\ now + d <= MaxNow
    /\ Apply([St(E("op", "tick", "", 0, d)) EXCEPT !.now = @ + d])

NextStore ==
    \/ \E r \in Rooms : Opened(r)
    \/ \E r \in Rooms : RoomSwitch(r)
    \/ \E type \in MessageTypes : Message(type)
    \/ \E list \in SUBSET OtherRooms : RoomList(list)
    \/ ExpirySweep
    \/ \E d \in TickSteps : Tick(d)

SpecStore == InitStored /\ [][NextStore]_vars

\* The same, with what the handlers report on the console.
InitQuota ==
    /\ InitTransport /\ currentRoomMessages = <<>> /\ StoredBefore
    /\ watch = {"store", "warn", "message"}

SpecQuota == InitQuota /\ [][NextStore]_vars

\* The same, with the calls of the opened handler.
InitOpened ==
    /\ InitTransport /\ currentRoomMessages = <<>> /\ StoredBefore
    /\ watch = {"store", "opened"}

SpecOpened == InitOpened /\ [][NextStore]_vars

\* ------------------------------------------- the functions of the history
\* The histories the functions of room.js and storage.js are called on: up
\* to MaxLen envelopes of any type, told apart by their position.
MaxLen == MAX_MESSAGES + 2
MsgLists ==
    UNION {{[i \in 1..n |-> Msg(f[i], i, f[i] = "file")] : f \in [1..n -> MessageTypes]} :
           n \in 0..MaxLen}

\* The age windows cleanupExpiredData is called with: its default, and the
\* first one of the message handler.
SweepAges == {MaxAgeMs, STORAGE_MAX_AGE_DAYS \div 2}

InitCalls ==
    /\ InitTransport /\ currentRoomMessages \in MsgLists /\ StoredBefore
    /\ watch = {"store", "warn", "log", "saveCurrent", "loadHistory", "cleanup"}

\* room.js saveCurrentRoomMessages(roomId)
SaveCurrent(roomId) ==
    Apply(saveCurrentRoomMessages(St(E("op", "saveCurrent", roomId, 0, 0)), roomId))

\* room.js loadRoomHistory(roomId)
LoadHistory(roomId) ==
    Apply(loadRoomHistory(St(E("op", "loadHistory", roomId, 0, 0)), roomId))

\* storage.js cleanupExpiredData(maxAge)
CleanupExpired(maxAge) ==
    Apply(cleanupExpiredData(St(E("op", "cleanup", "", 0, maxAge)), maxAge))

\* storage.js cleanupNonExistentRooms(existingRooms, currentRoom); the entry
\* of the call records the list in its last field.
CleanupNonExistent(list, current) ==
    Apply(cleanupNonExistentRooms(St(E("op", "cleanupRooms", current, 0, list)),
                                  list, current))

NextCalls ==
    \/ \E r \in Rooms : SaveCurrent(r)
    \/ \E r \in Rooms : LoadHistory(r)
    \/ \E maxAge \in SweepAges : CleanupExpired(maxAge)
    \/ \E d \in TickSteps : Tick(d)

SpecCalls == InitCalls /\ [][NextCalls]_vars

\* The age halving of the message handler, entered with the first divisor
\* while roomId is the room open, on any store and any window.
InitHalving ==
    /\ InitTransport /\ currentRoomMessages \in MsgLists /\ StoredBefore
    /\ watch = {"store", "warn", "log", "ageHalving"}

\* main.js message handler, the loop of its catch block
AgeHalving(roomId) ==
    Apply(ageHalving([St(E("op", "ageHalving", roomId, 0, 0))
                         EXCEPT !.currentRoom = roomId], 2))

NextHalving ==
    \/ \E r \in Rooms : AgeHalving(r)
    \/ \E d \in TickSteps : Tick(d)

SpecHalving == InitHalving /\ [][NextHalving]_vars

\* The client with the histories an earlier session left: the page is
\* loaded, the user moves between the rooms, the sockets open, deliver and
\* close in any order.
InitRooms ==
    /\ InitTransport /\ currentRoomMessages = <<>> /\ StoredBefore
    /\ watch = {"store", "init", "roomMessage"}

NextRooms ==
    \/ \E saved \in {"ann", ""} : AppInit(saved)
    \/ ConfirmUsername("ann")
    \/ \E r \in OtherRooms : JoinRoom(r)
    \/ LeaveRoom
    \/ \E s \in Socks : SockOpen(s)
    \/ \E s \in Socks : SockClose(s, 1006)
    \/ \E i \in 1..2 : TimerFire("room", i)
    \/ \E s \in Socks, list \in SUBSET OtherRooms :
           LobbyMessage(s, [type |-> "rooms", arg |-> "", list |-> list])
    \/ \E s \in Socks : RoomMessage(s, [type |-> "text", arg |-> ""])

SpecRooms == InitRooms /\ [][NextRooms]_vars

\* The connection layer with the banner of the connection status.
InitBanner == InitState /\ watch = {"banner"}

SpecBanner == InitBanner /\ [][NextConn]_vars

\* The purge of the records of rooms that are gone, called on any list and
\* any current room, and by the rooms handler.
InitPurge ==
    /\ InitTransport /\ currentRoomMessages = <<>> /\ StoredBefore
    /\ watch = {"store", "cleanupRooms"}

NextPurge ==
    \/ \E list \in SUBSET Rooms, current \in Rooms \cup {""} :
           CleanupNonExistent(list, current)
    \/ \E list \in SUBSET OtherRooms : RoomList(list)

SpecPurge == InitPurge /\ [][NextPurge]_vars

\* ------------------------------------------------------ creating a room
InitCreate == InitState /\ watch = {"createRoom", "status", "tx", "new"}

SpecCreate == InitCreate /\ [][NextConn]_vars

\* --------------------------------------------------- the room directory
\* A step of the server on connection c: the handlers of a room run one at
\* a time, each to its end.
ServerStep(kind, c, sv) ==
    /\ server' = sv
    /\ out' = <<E("op", kind, server.conn[c].room, c, 0)>>
    /\ UNCHANGED <<booted, username, lobbyWs, roomWs, currentRoom, lobbyRetry, roomRetry,
                   lobbyTimer, roomTimer, roomManualClose, timers, sock, existingRooms,
                   leaveBtn, reads, localStorage, quota, currentRoomMessages, rendered,
                   now, nextId, lastSched, config, connectionStatus, reported, watch>>

ServerAccept(c, r) ==
    /\ server.conn[c].st = "free"
    /\ ServerStep("accept", c, accept(server, c, r))

ServerHandshake(c, name) ==
    /\ server.conn[c].st = "open" /\ server.conn[c].name = ""
    /\ ServerStep("join", c, handshake(server, c, name))

ServerRename(c, name) ==
    /\ server.conn[c].st = "open" /\ server.conn[c].name # ""
    /\ ServerStep("rename", c, rename(server, c, name))

ServerClose(c) ==
    /\ server.conn[c].st = "open"
    /\ ServerStep("leave", c, leave(server, c))

InitDirectory == InitState /\ watch = {}

NextDirectory ==
    \/ \E c \in Conns, r \in Rooms : ServerAccept(c, r)
    \/ \E c \in Conns, name \in NameInputs : ServerHandshake(c, name)
    \/ \E c \in Conns, name \in NameInputs : ServerRename(c, name)
    \/ \E c \in Conns : ServerClose(c)

SpecDirectory == InitDirectory /\ [][NextDirectory]_vars

\* ------------------------------------------------------- the settings
\* What the server may answer /config with: for every field the values that
\* are taken, clamped or ignored.
MaxMessagesAnswers ==
    {Missing, Infinite, String("50"), Number(0 - half), Number(0), Number(half),
     Number(Num(500)), Number(Num(1000) + half)}
StorageMaxBytesAnswers ==
    {Missing, Infinite, Number(0), Number(Num(1)), Number(Num(8 * MiB))}
StorageMaxAgeDaysAnswers ==
    {Missing, Infinite, Number(0 - Num(1)), Number(half), Number(Num(30))}
NamePatternAnswers ==
    {Missing, Number(Num(1)), String(""), String("["), String("^[a-z]{1,4}$")}
NoAnswer ==
    [maxMessageBytes |-> Missing, maxMessages |-> Missing, storageMaxBytes |-> Missing,
     storageMaxAgeDays |-> Missing, namePattern |-> Missing, errorCodes |-> Missing]
\* The answers: one field set to every value of its own, and every mix of
\* a value that is ignored with one that is taken or clamped.
Cfgs ==
    {[NoAnswer EXCEPT !.maxMessages = x] : x \in MaxMessagesAnswers}
    \cup {[NoAnswer EXCEPT !.storageMaxBytes = x] : x \in StorageMaxBytesAnswers}
    \cup {[NoAnswer EXCEPT !.storageMaxAgeDays = x] : x \in StorageMaxAgeDaysAnswers}
    \cup {[NoAnswer EXCEPT !.namePattern = x] : x \in NamePatternAnswers}
    \cup [maxMessageBytes : {Missing, Number(Num(1024))},
          maxMessages : {Infinite, Number(Num(1000) + half)},
          storageMaxBytes : {Number(0), Number(Num(1))},
          storageMaxAgeDays : {Number(0 - Num(1)), Number(half)},
          namePattern : {String("["), String("^[a-z]{1,4}$")},
          errorCodes : {Missing, Array(<<"bad_room", "bad_room">>)}]

\* A call of applyServerConfig; the entry of the step records the answer.
ApplyServerConfig(cfg) ==
    /\ config' = applyServerConfig(config, cfg)
    /\ out' = <<E("op", "applyServerConfig", "", 0, cfg)>>
    /\ UNCHANGED <<booted, username, lobbyWs, roomWs, currentRoom, lobbyRetry, roomRetry,
                   lobbyTimer, roomTimer, roomManualClose, timers, sock, existingRooms,
                   leaveBtn, reads, localStorage, quota, currentRoomMessages, rendered,
                   now, nextId, lastSched, server, connectionStatus, reported, watch>>

InitConfig == InitState /\ watch = {"applyServerConfig"}

NextConfig == \E cfg \in Cfgs \cup {NullCfg} : ApplyServerConfig(cfg)

SpecConfig == InitConfig /\ [][NextConfig]_vars

\* ------------------------------------------------------ the chat session
\* What a server, or anything else that reaches the sockets, may put in a
\* frame: the envelopes of the scope, text that is not JSON, the JSON null,
\* an object without type, an unknown type, a type of the other scope.
RoomFrames ==
    [type : {"text", "file", "users", "error", "notJson", "", "typing", "rooms"},
     arg : {""}]

LobbyFrames == [type : {"rooms", "null", "", "text"}, arg : {""}, list : {{}}]

\* A session of one user: the page is loaded with or without a saved name,
\* the sockets open, close, are opened again and deliver frames, texts and
\* files are sent.
NextChat ==
    \/ \E saved \in {"ann", ""} : AppInit(saved)
    \/ \E v \in {"ann", ""} : ConfirmUsername(v)
    \/ \E s \in Socks : SockOpen(s)
    \/ \E s \in Socks, code \in CloseCodes : SockClose(s, code)
    \/ \E i \in 1..2 : TimerFire("room", i)
    \/ \E s \in Socks, m \in LobbyFrames : LobbyMessage(s, m)
    \/ \E s \in Socks, m \in RoomFrames : RoomMessage(s, m)
    \/ \E v \in Texts : SendText(v)
    \/ Files

InitChat ==
    /\ InitState
    /\ watch = {"store", "sendText", "sendFile", "fileLoaded", "roomMessage", "lobbyMessage",
                "tx", "bytes", "status"}

SpecChat == InitChat /\ [][NextChat]_vars

\* ------------------------------------------------------------------ claims
\* ------------------------------------------------- reading the step record
\* The positions of out at which an entry of kind ev was recorded.
Entries(o, ev) == {i \in 1..Len(o) : o[i].ev = ev}

\* The handler the step ran, when the specification watches it.
Op(o) == IF o # <<>> /\ o[1].ev = "op" THEN o[1] ELSE E("op", "", "", 0, 0)

\* The scope of the socket or the timer an open, close or timer step is about:
\* a lobby socket and a lobby timer carry no room id.
OpScope(o) == IF Op(o).room = "" THEN "lobby" ELSE "room"

\* ----------------------------------------------------- C1: backoff delays
\* The connection layer, recording the timers fired and the history of the
\* delays scheduled.
InitBackoff == InitState /\ watch = {"sched", "timer"}

SpecBackoff == InitBackoff /\ [][NextConn]_vars

\* One step of a scope's retry delay as the code computes it.  A step that
\* schedules a retry leaves one more timer pending; a socket of the scope
\* that opens goes from connecting to open.
RetryStep(sc) ==
    LET o == Op(out')
        r == IF sc = "lobby" THEN lobbyRetry ELSE roomRetry
        r2 == IF sc = "lobby" THEN lobbyRetry' ELSE roomRetry'
        fired == o.kind = "timer" /\ OpScope(out') = sc
        opened == \E s \in Socks : /\ sock[s].scope = sc /\ sock[s].st = "connecting"
                                   /\ sock'[s].scope = sc /\ sock'[s].st = "open"
        d == timers'[sc][Len(timers'[sc])].delay
    IN  /\ fired => r2 = Min(2 * o.n, RETRY_MAX_MS)
        /\ opened => r2 = RETRY_BASE_MS
        /\ ~(fired \/ opened) => r2 = r
        /\ Len(timers'[sc]) > Len(timers[sc]) => (d = r /\ d >= lastSched[sc] /\ d <= RETRY_MAX_MS)

\* C1 (amended): for each scope a retry is scheduled with the scope's current
\* retry delay, which is 1000 ms after every open of a socket of the scope,
\* becomes min(2 x d, 8000) when a retry timer of delay d fires and changes at
\* no other time; the delays scheduled with no open in between are
\* non-decreasing and never exceed 8000 ms.
C1_DelayFollowsFiredTimers == [][\A sc \in Scopes : RetryStep(sc)]_vars

\* C1 (as stated): with no open since the previous scheduled retry, each retry
\* is scheduled with min(2 x previous, 8000), and the first one with 1000.
C1_EachRetryDoubles ==
    [][\A sc \in Scopes :
           Len(timers'[sc]) > Len(timers[sc]) =>
               timers'[sc][Len(timers'[sc])].delay =
                   IF lastSched[sc] = 0 THEN RETRY_BASE_MS
                   ELSE Min(2 * lastSched[sc], RETRY_MAX_MS)]_vars

\* A retry is pending with a doubled delay, after a first retry of the scope
\* fired and the attempt it made failed.
C1_DoubledRetryScheduled ==
    \E sc \in Scopes : Len(timers[sc]) = 1 /\ timers[sc][1].delay = 2 * RETRY_BASE_MS

\* ------------------------------------------------ C2, C3, C4: close events
\* The connection layer, recording the close events handled, the sockets
\* created, the retries scheduled and the errors notified.
InitClose == InitState /\ watch = {"close", "new", "setTimer", "error"}

SpecClose == InitClose /\ [][NextConn]_vars

\* C2: when a connection of either scope closes with code 1008 or 1009, the
\* step schedules no retry and opens no connection for that scope, and emits
\* an error notification carrying the code.
C2_TerminalCloseNoReconnect ==
    LET o == Op(out) IN
    (o.kind = "close" /\ o.n \in {1008, 1009}) =>
        /\ \A i \in Entries(out, "setTimer") : out[i].kind # OpScope(out)
        /\ \A i \in Entries(out, "new") : out[i].kind # OpScope(out)
        /\ \E i \in Entries(out, "error") : out[i].n = o.n

\* C3: after the close of a socket the client had not closed itself, with a
\* code other than 1008 and 1009 and, for the room scope, with an active room
\* and a display name, a retry timer of the scope is pending.
C3_NonManualCloseSchedulesRetry ==
    [][\A s \in Socks :
           LET o == Op(out') IN
           (/\ o.kind = "close" /\ o.sock = s /\ o.n \notin {1008, 1009}
            /\ sock[s].st \in {"connecting", "open"}
            /\ sock[s].scope = "room" => (currentRoom # "" /\ username # ""))
               => /\ Len(timers'[sock[s].scope]) = 1
                  /\ IF sock[s].scope = "lobby" THEN lobbyTimer' ELSE roomTimer']_vars

\* C4: when the close event of a room socket closed by connectRoom is handled,
\* the step opens a connection to the active room, schedules no retry, leaves
\* the retry delay as it was and leaves no room-scope timer pending.
C4_ManualSwitchReopensAtOnce ==
    [][\A s \in Socks :
           LET o == Op(out') IN
           (o.kind = "close" /\ o.sock = s /\ sock[s].scope = "room" /\ sock[s].st = "closing")
               => /\ \E i \in Entries(out', "new") :
                         out'[i].kind = "room" /\ out'[i].room = currentRoom
                  /\ Entries(out', "setTimer") = {}
                  /\ roomRetry' = roomRetry
                  /\ timers'["room"] = <<>> /\ ~roomTimer']_vars

\* ------------------------------------------------- C6: the display-name gate
\* The connection layer, recording the calls of connectRoom and the sockets
\* created.
InitGate == InitState /\ watch = {"connectRoom", "new"}

SpecGate == InitGate /\ [][NextConn]_vars

\* C6: while the display name is empty no room-scope socket exists, no step
\* creates one, and no room-scope retry is pending.
C6_NoRoomAttemptWithoutName ==
    username = "" =>
        /\ \A s \in Socks : sock[s].scope # "room"
        /\ \A i \in Entries(out, "new") : out[i].kind # "room"
        /\ timers["room"] = <<>> /\ ~roomTimer

\* connectRoom was called while the display name is empty.
C6_ConnectRoomCalledWithoutName == username = "" /\ Entries(out, "connectRoom") # {}

\* ------------------------------------------------------------- C7: send
\* The whole client, recording the calls of send, the frames transmitted and
\* the sendFail notifications.
InitSend == InitState /\ watch = {"send", "tx", "sendFail"}

SpecSend == InitSend /\ [][Next]_vars

\* C7: a step that calls send(payload) with the room socket open transmits
\* the payload on it, once, and emits no sendFail; with the room socket not
\* open it transmits nothing, changes no socket and emits sendFail once; in
\* both cases the active room, the retry delays and the timers stay as they
\* were.
C7_SendTransmitsOrFails ==
    [][\A i \in Entries(out', "send") :
           LET isOpen == roomWs # 0 /\ sock[roomWs].st = "open"
               tx == Entries(out', "tx")
               fails == Entries(out', "sendFail")
           IN  /\ isOpen => /\ fails = {}
                            /\ Cardinality(tx) = 1
                            /\ \A j \in tx : out'[j].sock = roomWs /\ out'[j].kind = out'[i].kind
               /\ ~isOpen => (tx = {} /\ Cardinality(fails) = 1 /\ sock' = sock)
               /\ currentRoom' = currentRoom
               /\ lobbyRetry' = lobbyRetry /\ roomRetry' = roomRetry
               /\ timers' = timers /\ lobbyTimer' = lobbyTimer /\ roomTimer' = roomTimer]_vars

\* send was called with the room socket not open, and sendFail was emitted.
C7_SendFailed == Entries(out, "send") # {} /\ Entries(out, "sendFail") # {}

\* send was called with the room socket open, and the payload transmitted.
C7_SendTransmitted ==
    \E i \in Entries(out, "send"), j \in Entries(out, "tx") : out[j].kind = out[i].kind

\* ------------------------------------------------------ C9: roomSwitch
\* The connection layer, recording the calls of connectRoom, the roomSwitch
\* notifications, the sockets created and the close and timer events handled.
InitSwitch == InitState /\ watch = {"connectRoom", "roomSwitch", "new", "close", "timer"}

SpecSwitch == InitSwitch /\ [][NextConn]_vars

\* In out, a roomSwitch(id) notification after position i, then a room socket
\* to id created after it.
SwitchThenNew(o, i, id) ==
    \E j \in Entries(o, "roomSwitch"), k \in Entries(o, "new") :
        i < j /\ j < k /\ o[j].room = id /\ o[k].kind = "room" /\ o[k].room = id

\* C9 (amended): connectRoom(id) called with a display name set and no room
\* socket open emits roomSwitch(id) at once and then creates the socket; called
\* with the room socket open to another room it emits nothing and creates
\* nothing, it closes the socket with the manual flag set and id as the active
\* room; the close listener that finds the flag set emits roomSwitch for the
\* active room and then creates the socket.  Except in a timer callback, every
\* room socket created is preceded in the same step by roomSwitch for its room.
C9_RoomSwitchBeforeOpening ==
    [][
        /\ \A i \in Entries(out', "connectRoom") :
              LET id == out'[i].room
                  isOpen == roomWs # 0 /\ sock[roomWs].st = "open"
              IN  username' # "" =>
                      /\ ~isOpen => SwitchThenNew(out', i, id)
                      /\ (isOpen /\ id # currentRoom) =>
                             /\ Entries(out', "roomSwitch") = {}
                             /\ Entries(out', "new") = {}
                             /\ roomManualClose' /\ currentRoom' = id
                             /\ sock'[roomWs].st = "closing"
        /\ (/\ Op(out').kind = "close" /\ OpScope(out') = "room"
            /\ roomManualClose /\ currentRoom # "") => SwitchThenNew(out', 1, currentRoom)
        /\ \A k \in Entries(out', "new") :
              (out'[k].kind = "room" /\ Op(out').kind # "timer") =>
                  \E j \in Entries(out', "roomSwitch") : j < k /\ out'[j].room = out'[k].room
    ]_vars

\* C9 (as stated): connectRoom(id) called with a display name set for a room
\* other than the active one emits roomSwitch(id) before it returns.
C9_RoomSwitchEmittedAtOnce ==
    [][\A i \in Entries(out', "connectRoom") :
           (username' # "" /\ out'[i].room # currentRoom) =>
               \E j \in Entries(out', "roomSwitch") : i < j /\ out'[j].room = out'[i].room]_vars

\* The close event of a manually closed room socket was handled: roomSwitch
\* was notified for the new room and the socket to it created.
C9_SwitchedOnClose ==
    /\ Op(out).kind = "close" /\ OpScope(out) = "room"
    /\ currentRoom # Op(out).room
    /\ SwitchThenNew(out, 1, currentRoom)

\* ------------------------------------------------- C10: one timer a scope
\* The connection layer, recording the timers set and fired, what the timer
\* callback does, and the close events handled.
InitTimers == InitState /\ watch = {"timer", "timerNull", "retry", "new", "close", "setTimer"}

SpecTimers == InitTimers /\ [][NextConn]_vars

\* One step, seen from the timers of scope sc.
TimerStep(sc) ==
    LET handle == IF sc = "lobby" THEN lobbyTimer ELSE roomTimer
        handle2 == IF sc = "lobby" THEN lobbyTimer' ELSE roomTimer'
        o == Op(out')
        here == OpScope(out') = sc
    IN  \* at most one timer is pending, and the handle holds it
        /\ Len(timers'[sc]) <= 1
        /\ handle2 <=> Len(timers'[sc]) = 1
        \* the timer that fired is gone and its callback sets none; the
        \* callback nulls the handle first, then sets the delay, then connects
        /\ (o.kind = "timer" /\ here) =>
               /\ timers'[sc] = <<>>
               /\ Len(out') >= 3 /\ out'[2].ev = "timerNull" /\ out'[3].ev = "retry"
               /\ \A i \in Entries(out', "new") : i > 3
        \* a close event handled while a timer is pending sets no other timer
        /\ (o.kind = "close" /\ here /\ handle) =>
               /\ \A i \in Entries(out', "setTimer") : out'[i].kind # sc
               /\ timers'[sc] \in {timers[sc], <<>>}

\* C10: for each scope at most one reconnect timer is pending in every state;
\* a timer that fires is no longer pending, its callback clears the handle
\* before anything else, and a close event handled while a timer is pending
\* schedules no other one.
C10_OneTimerPerScope == [][\A sc \in Scopes : TimerStep(sc)]_vars

\* A lobby close event was handled while a lobby timer was pending.
C10_CloseWhileTimerPending ==
    /\ Op(out).kind = "close" /\ OpScope(out) = "lobby"
    /\ lobbyTimer /\ Entries(out, "setTimer") = {}

\* The room-scope sockets that are connecting or open.
RoomTransports == {s \in Socks : sock[s].scope = "room" /\ sock[s].st \in {"connecting", "open"}}

\* C5: in every reachable state the client has at most one room-scope
\* transport that is connecting or open.
C5_AtMostOneRoomTransport == Cardinality(RoomTransports) <= 1

\* C8: every open room-scope socket (the display name is set whenever one
\* opens) has sent the handshake as its first frame.
C8_HandshakeFirst ==
    \A s \in Socks : (sock[s].scope = "room" /\ sock[s].st = "open") => sock[s].first = "hello"

\* ------------------------------------------- C11..C20: the message history
\* The record stored for a room, and whether one is stored that parses.
Record(roomId) == localStorage[getStorageKey(roomId)]
Stored(roomId) == Record(roomId).kind = "json"

\* C11: every record in the store holds at most MAX_MESSAGES envelopes,
\* whatever rooms were opened, histories loaded and messages received.
C11_RecordsHoldAtMostMax ==
    \A r \in Rooms : Stored(r) => Len(Record(r).messages) <= MAX_MESSAGES

\* The entries of out that report a failure.
Warned(text) == \E i \in 1..Len(out) : out[i].ev = "warn" /\ out[i].kind = text

\* C12: the pane never shows more than MAX_MESSAGES messages, and what
\* addMessage leaves of the pane and the new message is their most recent
\* part, in order, whether or not the store accepted the last write.
C12_PaneHoldsMostRecent ==
    /\ Len(rendered) <= MAX_MESSAGES
    /\ \A type \in MessageTypes \cup {"status"} :
          LET m == Msg(type, nextId, type = "file")
              r == addMessage(St(E("op", "", "", 0, 0)), m).rendered
          IN  /\ Len(r) = Min(MAX_MESSAGES, Len(rendered) + 1)
              /\ r = SliceLast(Append(rendered, m), Len(r))

\* The pane is full, its oldest message has been evicted, and the write of
\* the text message shown last has failed: the record does not hold it.
C12_FullPaneAfterFailedWrite ==
    /\ Len(rendered) = MAX_MESSAGES
    /\ rendered[1].id > 1
    /\ rendered[MAX_MESSAGES].type = "text"
    /\ currentRoom # "" /\ Stored(currentRoom)
    /\ \A i \in 1..Len(Record(currentRoom).messages) :
          Record(currentRoom).messages[i].id # rendered[MAX_MESSAGES].id

\* C13: no record in the store holds the payload of a file envelope.
C13_NoPayloadStored ==
    \A r \in Rooms :
        Stored(r) => \A i \in 1..Len(Record(r).messages) : ~Record(r).messages[i].data

\* The history of the current room holds a file with its payload, and its
\* record, cut by the halving of an over-budget save, holds that file.
C13_FileStoredByTrimmedSave ==
    /\ currentRoom # "" /\ Stored(currentRoom)
    /\ Len(Record(currentRoom).messages) < Len(storableMessages(currentRoomMessages))
    /\ \E i \in 1..Len(currentRoomMessages), j \in 1..Len(Record(currentRoom).messages) :
          /\ currentRoomMessages[i].type = "file" /\ currentRoomMessages[i].data
          /\ Record(currentRoom).messages[j].type = "file"
          /\ Record(currentRoom).messages[j].id = currentRoomMessages[i].id

\* The envelopes of a list that are to be persisted, as they are to be
\* persisted: status, text and file ones, without payload.
Persistable(ms) ==
    LET kept == SelectSeq(ms, LAMBDA x : x.type \in {"status", "text", "file"})
    IN  [i \in 1..Len(kept) |-> Msg(kept[i].type, kept[i].id, FALSE)]

\* l is the most recent part of ms, in the order of ms.
IsSuffix(l, ms) ==
    /\ Len(l) <= Len(ms)
    /\ \A i \in 1..Len(l) : l[i] = ms[Len(ms) - Len(l) + i]

\* C14: a history loaded right after the history M was saved for the same
\* room without failure is the most recent part, of at most MAX_MESSAGES
\* envelopes, of the persistable envelopes of M without their payloads.
C14_LoadAfterSave ==
    [][
        (/\ Op(out).kind = "saveCurrent" /\ ~Warned("saveFailed")
         /\ Op(out').kind = "loadHistory" /\ Op(out').room = Op(out).room)
        => /\ Len(currentRoomMessages') <= MAX_MESSAGES
           /\ IsSuffix(currentRoomMessages', Persistable(currentRoomMessages))
    ]_vars

\* A history of more than MAX_MESSAGES persistable envelopes, with a file
\* payload and an envelope that is not persisted, has been saved.
C14_LongMixedHistorySaved ==
    /\ Op(out).kind = "saveCurrent" /\ ~Warned("saveFailed")
    /\ Len(Persistable(currentRoomMessages)) > MAX_MESSAGES
    /\ \E i, j \in 1..Len(currentRoomMessages) :
          currentRoomMessages[i].type = "typing" /\ currentRoomMessages[j].data
    /\ Stored(Op(out).room)
    /\ Len(Record(Op(out).room).messages) > MAX_MESSAGES

\* C15: saving the same history for the same room a second time leaves the
\* record with the message sequence the first save left, and the store
\* within STORAGE_MAX_BYTES.
C15_SecondSaveChangesNothing ==
    [][
        (/\ Op(out).kind = "saveCurrent" /\ ~Warned("saveFailed")
         /\ Op(out').kind = "saveCurrent" /\ Op(out').room = Op(out).room)
        => /\ Record(Op(out).room)'.messages = Record(Op(out).room).messages
           /\ SumUsage(localStorage', Keys) <= STORAGE_MAX_BYTES
    ]_vars

\* C16: loading the history of a room whose record has another version tag,
\* or none, gives the empty history and removes that record and no other
\* value of the store; loading a record that does not parse gives the empty
\* history, and the error is caught.
C16_InvalidRecordDiscarded ==
    [][
        Op(out').kind = "loadHistory"
        => LET r == Op(out').room
               v == localStorage[getStorageKey(r)]
           IN  /\ (v.kind = "json" /\ v.version # STORAGE_VERSION)
                  => /\ currentRoomMessages' = <<>>
                     /\ localStorage'[getStorageKey(r)] = NoItem
                     /\ \A k \in Keys \ {getStorageKey(r)} : localStorage'[k] = localStorage[k]
               /\ v.kind = "garbage"
                  => /\ currentRoomMessages' = <<>>
                     /\ \A k \in Keys \ {getStorageKey(r)} : localStorage'[k] = localStorage[k]
    ]_vars

\* A record of another version has been removed by a load while the other
\* room has a record.
C16_MismatchedRecordRemoved ==
    /\ Op(out).kind = "loadHistory" /\ Warned("versionMismatch")
    /\ localStorage[getStorageKey(Op(out).room)] = NoItem
    /\ \E r \in Rooms \ {Op(out).room} : Stored(r)

\* C17: when the write of a received message is refused by the quota, the
\* message handler escalates: it purges the records of the rooms that are
\* neither listed nor current and retries, then shrinks the age window and
\* retries, until a write succeeds or it reports that every cleanup failed.
C17_QuotaFailureEscalates ==
    (Op(out).kind = "message" /\ Warned("quotaExceeded"))
    => /\ Warned("quota")
       /\ \A r \in Rooms \ (existingRooms \cup {currentRoom}) : Record(r) = NoItem
       /\ \/ Warned("allCleanupFailed")
          \/ /\ Stored(currentRoom)
             /\ Record(currentRoom).timestamp = now

\* The record of room r is one the failure of a write must not touch: r is
\* listed, and its record parses and is not older than the maximum age.
Protected(r) ==
    /\ r \in existingRooms
    /\ Stored(r)
    /\ now - Record(r).timestamp <= MaxAgeMs

C19_WithinBudgetOrFailureReported ==
    Op(out).kind = "saveCurrent"
    => \/ SumUsage(localStorage, Keys) <= STORAGE_MAX_BYTES
       \/ Warned("quotaExceeded") \/ Warned("saveFailed")

C21_PurgeKeepsListedAndCurrent ==
    [][
        Op(out').kind = "cleanupRooms"
        => LET L == Op(out').n
               R == Op(out').room
           IN  /\ \A r \in Rooms :
                      Record(r)' = IF r \in L \/ r = R THEN Record(r) ELSE NoItem
               /\ localStorage'[NameKey] = localStorage[NameKey]
               /\ localStorage'[ThemeKey] = localStorage[ThemeKey]
    ]_vars

\* The purge has kept the record of the current room, which is not listed,
\* and removed the record of the other room.
C21_UnlistedCurrentRoomKept ==
    /\ Op(out).kind = "cleanupRooms"
    /\ Op(out).room \notin Op(out).n
    /\ Op(out).room \in Rooms /\ Record(Op(out).room) # NoItem
    /\ \E r \in Rooms \ {Op(out).room} : Record(r) = NoItem /\ r \notin Op(out).n
    /\ localStorage[NameKey] = Plain /\ localStorage[ThemeKey] = Plain

\* ------------------------------------------- C22..C25: the chat session
\* The step record o holds the status line text.
HasStatus(o, text) == \E i \in 1..Len(o) : o[i].ev = "status" /\ o[i].kind = text

\* The frames of the given types the step record o holds as transmitted.
Sent(o, types) == {i \in 1..Len(o) : o[i].ev = "tx" /\ o[i].kind \in types}

\* The step left the sockets, the handles, the active room, the retry delays
\* and the timers as they were.
ConnectionUnchanged ==
    /\ sock' = sock /\ lobbyWs' = lobbyWs /\ roomWs' = roomWs
    /\ currentRoom' = currentRoom /\ roomManualClose' = roomManualClose
    /\ lobbyRetry' = lobbyRetry /\ roomRetry' = roomRetry
    /\ timers' = timers /\ lobbyTimer' = lobbyTimer /\ roomTimer' = roomTimer

\* What sendText does with a text longer than MAX_MESSAGE_BYTES, as stated.
OversizeRejected ==
    /\ Sent(out', {"text", "file"}) = {}
    /\ HasStatus(out', "textTooLong")
    /\ ConnectionUnchanged
    /\ currentRoomMessages' = currentRoomMessages

\* C22 as stated: sendText with a text longer than MAX_MESSAGE_BYTES
\* transmits nothing, shows the size-exceeded status line, and leaves the
\* connection and the history of received messages as they were.
C22_OversizeTextRejected ==
    [][
        (Op(out').kind = "sendText" /\ Op(out').n > MAX_MESSAGE_BYTES) => OversizeRejected
    ]_vars

\* C22 amended: the same, when the display name is set and the room socket
\* is open; in every case nothing is transmitted and the connection and the
\* history are unchanged.
C22_OversizeTextRejectedWhenOpen ==
    [][
        (Op(out').kind = "sendText" /\ Op(out').n > MAX_MESSAGE_BYTES)
        => /\ Sent(out', {"text", "file"}) = {}
           /\ ConnectionUnchanged
           /\ currentRoomMessages' = currentRoomMessages
           /\ (username # "" /\ roomWs # 0 /\ sock[roomWs].st = "open") => OversizeRejected
    ]_vars

\* A text longer than MAX_MESSAGE_BYTES has been refused while the history
\* holds a received message.
C22_OversizeRefusedInOpenRoom ==
    /\ Op(out).kind = "sendText" /\ Op(out).n > MAX_MESSAGE_BYTES
    /\ HasStatus(out, "textTooLong")
    /\ roomWs # 0 /\ sock[roomWs].st = "open"
    /\ \E i \in 1..Len(currentRoomMessages) : currentRoomMessages[i].type = "text"

\* C23: every text or file envelope the client transmits takes at most
\* MAX_MESSAGE_BYTES bytes once serialized.
C23_TransmittedWithinLimit ==
    \A i \in Sent(out, {"text", "file"}) : out[i].n <= MAX_MESSAGE_BYTES

\* The frame types that are no envelope of the room scope, of the lobby scope.
NotOfRoom == {"notJson", "", "typing", "rooms"}
NotOfLobby == {"null", "", "text"}

\* C24: a frame that is not JSON, or is no known envelope of its scope, is
\* ignored: the step records nothing but itself, the history, the pane and
\* the store are as they were, and the connection is as it was.
C24_MalformedFrameIgnored ==
    [][
        (\/ Op(out').kind = "roomMessage" /\ Op(out').n \in NotOfRoom
         \/ Op(out').kind = "lobbyMessage" /\ Op(out').n \in NotOfLobby)
        => /\ Len(out') = 1
           /\ currentRoomMessages' = currentRoomMessages
           /\ rendered' = rendered
           /\ localStorage' = localStorage
           /\ ConnectionUnchanged
    ]_vars

\* The identities of the chat messages of a list.
ChatIds(ms) == {ms[i].id : i \in {j \in 1..Len(ms) : ms[j].type \in {"text", "file"}}}

\* The identities of the chat messages the client holds: in the history of
\* the active room, in the pane and in the stored histories.
Shown ==
    ChatIds(currentRoomMessages) \cup ChatIds(rendered)
        \cup UNION {ChatIds(Record(r).messages) : r \in Rooms}

\* How often the chat message of identity id stands in the list.
Times(ms, id) ==
    Cardinality({i \in 1..Len(ms) : ms[i].id = id /\ ms[i].type \in {"text", "file"}})

\* C25: sendText and sendFile leave the history, the pane's chat messages
\* and the store as they were, and a step that transmits shows nothing; a
\* chat message the client did not hold appears only in the step of a text
\* or file envelope from the room socket, which adds it once to the history
\* and once to the pane.
C25_ShownOnlyByEcho ==
    [][
        /\ Op(out').kind \in {"sendText", "sendFile", "fileLoaded"}
           => /\ currentRoomMessages' = currentRoomMessages
              /\ localStorage' = localStorage
              /\ ChatIds(rendered') \subseteq ChatIds(rendered)
              /\ Sent(out', {"text", "file"}) # {} => rendered' = rendered
        /\ ~(Shown' \subseteq Shown)
           => Op(out').kind = "roomMessage" /\ Op(out').n \in {"text", "file"}
        /\ (Op(out').kind = "roomMessage" /\ Op(out').n \in {"text", "file"})
           => /\ Shown' \ Shown = {nextId}
              /\ Times(currentRoomMessages', nextId) = 1
              /\ Times(rendered', nextId) = 1
              /\ currentRoomMessages'[Len(currentRoomMessages')].id = nextId
              /\ rendered'[Len(rendered')].id = nextId
    ]_vars

\* A text was transmitted while the history holds the echo of an earlier
\* one, and the pane holds as many chat messages as the history.
C25_SentAfterEcho ==
    /\ Op(out).kind = "sendText" /\ Sent(out, {"text"}) # {}
    /\ ChatIds(currentRoomMessages) # {}
    /\ ChatIds(rendered) = ChatIds(currentRoomMessages)

\* ----------------------------------------------------- C26: the settings
\* The fields of the answer that leave the setting they name as it was.
Ignored(x) == ~(isFinite(x) /\ x.v > 0)

\* C26: after any calls of applyServerConfig MAX_MESSAGES lies in 10..1000,
\* STORAGE_MAX_BYTES is at least 1 MiB and STORAGE_MAX_AGE_DAYS at least 1;
\* a field that is missing, not finite or not positive leaves its setting
\* as it was, and so does a name pattern that is no regular expression.
C26_SettingsClamped ==
    /\ [](/\ config.MAX_MESSAGES >= Num(10) /\ config.MAX_MESSAGES <= Num(1000)
          /\ config.STORAGE_MAX_BYTES >= Num(MiB)
          /\ config.STORAGE_MAX_AGE_DAYS >= Num(1))
    /\ [][
          Op(out').kind = "applyServerConfig" =>
          LET cfg == Op(out').n IN
          IF cfg = NullCfg THEN config' = config
          ELSE /\ Ignored(cfg.maxMessages) => config'.MAX_MESSAGES = config.MAX_MESSAGES
               /\ Ignored(cfg.storageMaxBytes)
                  => config'.STORAGE_MAX_BYTES = config.STORAGE_MAX_BYTES
               /\ Ignored(cfg.storageMaxAgeDays)
                  => config'.STORAGE_MAX_AGE_DAYS = config.STORAGE_MAX_AGE_DAYS
               /\ (cfg.namePattern.kind = "string" /\ regExpThrows(cfg.namePattern.v))
                  => config'.NAME_PATTERN = config.NAME_PATTERN
       ]_vars

\* A count above 1000 was brought down to 1000 and half a day up to one
\* day, while a pattern that is no regular expression left the pattern an
\* earlier answer had set.
C26_ClampedAndPatternKept ==
    /\ Op(out).kind = "applyServerConfig"
    /\ Op(out).n # NullCfg
    /\ Op(out).n.maxMessages = Number(Num(1000) + half)
    /\ config.MAX_MESSAGES = Num(1000)
    /\ Op(out).n.storageMaxAgeDays = Number(half)
    /\ config.STORAGE_MAX_AGE_DAYS = Num(1)
    /\ Op(out).n.namePattern = String("[")
    /\ config.NAME_PATTERN = "^[a-z]{1,4}$"

\* ------------------------------------------- C27: the first display name
\* C27: the step in which a page loaded without a saved name gets its first
\* display name leaves the default room as the active room and a room
\* socket to it connecting or open.
C27_FirstNameConnects ==
    [][
        (booted /\ username = "" /\ username' # "")
        => /\ currentRoom' = LOBBY_ROOM
           /\ roomWs' # 0
           /\ sock'[roomWs'].scope = "room" /\ sock'[roomWs'].room = LOBBY_ROOM
           /\ sock'[roomWs'].st \in {"connecting", "open"}
    ]_vars

\* ------------------------------------------- C28: an illegal room name
\* The step was a create click with a room name that is not legal.
IllegalCreate(o) == Op(o).kind = "createRoom" /\ ~validName(Op(o).room)

\* The step opened no socket and sent no create frame, and left the
\* connection, the active room included, as it was.
NothingCreated ==
    /\ Sent(out', {"create"}) = {}
    /\ \A i \in 1..Len(out') : out'[i].ev # "new"
    /\ ConnectionUnchanged

\* C28 as stated: a create click with an illegal room name shows the
\* bad_room line, sends no create frame, opens no lobby socket and leaves
\* the active room as it was.
C28_IllegalRoomRefused ==
    [][IllegalCreate(out') => (HasStatus(out', "bad_room") /\ NothingCreated)]_vars

\* C28 amended: nothing is created in every case, and the bad_room line is
\* shown when a display name is set or the name box holds text; with
\* neither, the line asks for the display name.
C28_IllegalRoomNeverCreated ==
    [][
        IllegalCreate(out')
        => /\ NothingCreated
           /\ IF username # "" \/ Op(out').n # ""
              THEN HasStatus(out', "bad_room")
              ELSE HasStatus(out', "enterUsername") /\ ~HasStatus(out', "bad_room")
    ]_vars

\* An illegal room name was refused while the lobby socket is open, where a
\* create frame would have been sent at once.
C28_RefusedWithOpenLobby ==
    /\ IllegalCreate(out) /\ HasStatus(out, "bad_room")
    /\ lobbyWs # 0 /\ sock[lobbyWs].st = "open"

\* --------------------------------------------------- C29: member lists
\* C29: for every room the member-name list broadcast last is the list of
\* the open connections of the room with a confirmed display name, and it
\* is the list every member received last.
C29_MemberListExact ==
    \A r \in Rooms :
        /\ server.users[r] = memberList(server, r)
        /\ \A c \in Members(server, r) : server.got[c] = memberList(server, r)

\* A connection has left a room in which two members of the same display
\* name stay.
C29_LeftRoomOfThree ==
    /\ Op(out).kind = "leave"
    /\ Cardinality(Members(server, Op(out).room)) = 2
    /\ \A c \in Members(server, Op(out).room) : server.conn[c].name = "bob"

\* ------------------------------------------------ C30: one lobby socket
\* The lobby sockets that are connecting or open.
LobbyTransports ==
    {s \in Socks : sock[s].scope = "lobby" /\ sock[s].st \in {"connecting", "open"}}

\* C30: at most one lobby socket is connecting or open.
C30_OneLobbyTransport == Cardinality(LobbyTransports) <= 1

\* ------------------------------------------- C31: the handle and the sockets
\* C31: while the handle of a scope is null no socket of the scope is
\* connecting or open.
C31_NullHandleNoTransport ==
    /\ lobbyWs = 0 => LobbyTransports = {}
    /\ roomWs = 0 => RoomTransports = {}

\* ------------------------------------------- C32: the history at an open
\* The history the opened handler of the step leaves for its room, as
\* stated: what loadRoomMessages gave for the room, then the join line.
JoinedWindow ==
    Append(loadRoomMessages([localStorage |-> localStorage], Op(out').room),
           Msg("status", nextId, FALSE))

\* The messages of the record the step leaves for its room.
WrittenAtOpen == localStorage'[getStorageKey(Op(out').room)].messages

C33_SweepKeepsYoungerThanHalf ==
    [][ Op(out').kind = "ageHalving" =>
          \A r \in Rooms \ {Op(out').room} :
              (Stored(r) /\ Record(r).timestamp # 0
                         /\ now - Record(r).timestamp <= MaxAgeMs \div 2)
              => localStorage'[getStorageKey(r)] = Record(r) ]_vars

\* C34: a save that found the store over budget after the sweep, and was not
\* refused, has written exactly the most recent floor(n/2) of the n
\* persistable messages of the window, in their order.
C34_MostRecentHalfWritten ==
    [][
        (/\ Op(out').kind = "saveCurrent"
         /\ Warned("keepHalf")'
         /\ ~Warned("quotaExceeded")' /\ ~Warned("saveFailed")')
        => LET ms == Persistable(currentRoomMessages)
               n == Len(ms)
           IN  localStorage'[getStorageKey(Op(out').room)].messages
                   = SubSeq(ms, n - (n \div 2) + 1, n)
    ]_vars

\* C35: an envelope received on a connection to a room changes the record of
\* no other room.
C35_EnvelopeStoredUnderItsRoom ==
    [][
        Op(out').kind = "roomMessage"
        => \A r \in Rooms \ {sock[Op(out').sock].room} :
               localStorage'[getStorageKey(r)] \in {Record(r), NoItem}
    ]_vars

\* C36: loading the page removes the record of no room other than the
\* lobby that parses, has this version and is not older than the maximum
\* age: no list of the server has arrived yet.
C36_StartupKeepsCachedHistory ==
    [][
        Op(out').kind = "init"
        => \A r \in OtherRooms :
               (/\ Stored(r) /\ Record(r).version = STORAGE_VERSION
                /\ now - Record(r).timestamp <= MaxAgeMs)
               => localStorage'[getStorageKey(r)] = Record(r)
    ]_vars

\* C37: a room socket made by the callback of a reconnect timer, or by the
\* close listener after a manual close, is a socket to the room that is
\* current when it is made.
C37_ReopenTargetsCurrentRoom ==
    [][
        Op(out').kind \in {"timer", "close"}
        => \A s \in Socks :
               (/\ sock[s].st = "free" \/ Op(out').sock = s
                /\ sock'[s].scope = "room" /\ sock'[s].st = "connecting")
               => sock'[s].room = currentRoom'
    ]_vars

\* The callback of a reconnect timer has made a socket to the room the user
\* had joined, which is the current one.
C37_TimerReopenedJoinedRoom ==
    /\ Op(out).kind = "timer" /\ Op(out).room \in OtherRooms
    /\ currentRoom = Op(out).room
    /\ \E i \in Entries(out, "new") : out[i].kind = "room" /\ out[i].room = currentRoom

\* C38: a click on create that leaves the display name empty makes no
\* socket and queues or transmits no create request.
C38_NoCreateWithoutName ==
    [][
        (Op(out').kind = "createRoom" /\ username' = "")
        => /\ Entries(out', "new") = {}
           /\ Entries(out', "tx") = {}
           /\ \A s \in Socks : sock'[s].onOpen = sock[s].onOpen
    ]_vars

\* C39: a create request that waits for a lobby socket to open is, after any
\* step, either transmitted in that step or still waiting for a socket.
C39_QueuedRequestKept ==
    [][
        \A s \in Socks : \A i \in 1..Len(sock[s].onOpen) :
            \/ \E j \in Sent(out', {"create"}) : out'[j].room = sock[s].onOpen[i]
            \/ \E s2 \in Socks : \E k \in 1..Len(sock'[s2].onOpen) :
                   sock'[s2].onOpen[k] = sock[s].onOpen[i]
    ]_vars

\* C40: while the last connection event of a scope is reconnecting the
\* banner of the connection status is not hidden.
C40_BannerWhileReconnecting ==
    (\E sc \in Scopes : reported[sc] = "reconnecting") => ~connectionStatus.hidden
====
